---- MODULE Spec2Model ----
(***************************************************************************)
(* A model of nsoccsp/netSecAudit: the random topology graph of utils.py   *)
(* and the statistics the Network Topology page computes on it, the        *)
(* synthetic vulnerability table of that page, the probes of               *)
(* components/device_discovery.py with the Start Discovery handler of the  *)
(* Device Inventory page, and the network_devices table written by         *)
(* database/db_utils.py and seed_data.py.                                  *)
(*                                                                         *)
(* The four parts are independent programs (two Streamlit pages, a class   *)
(* and a database layer); each has its own next-state relation and its own *)
(* specification over the shared variable list, and Spec runs them all.    *)
(***************************************************************************)
EXTENDS Integers, Sequences, FiniteSets, TLC

VARIABLES
    \* ---- create_network_graph and the Network Statistics panel
    g_pc,           \* position in create_network_graph / the page
    num_nodes,      \* argument num_nodes (slider Network Size)
    num_edges,      \* argument num_edges (slider Connection Density)
    g_i,            \* the loop variable of "for i in range(num_nodes)"
    G_nodes,        \* G.nodes
    G_edges,        \* G.edges, each an unordered pair {u, v}
    pos,            \* the keys of the dict pos
    metric_kind,    \* what the Network Diameter metric shows
    metric_value,   \* the number shown when metric_kind = "number"
    total_devices,  \* what the metric Total Devices shows (0 before it is shown)
    total_connections, \* what the metric Total Connections shows
    \* ---- the vulnerability table of the Topology Analysis tab
    v_pc,
    v_i,            \* the loop variable of "for i in range(5)"
    rowA,           \* the row just appended by one analysis
    rowB,           \* the row just appended by a second analysis
    \* ---- DeviceDiscovery probes and the Start Discovery handler
    p_pc,           \* position of the probe call in flight
    p_probe,        \* which discover_* method is running
    p_clock,        \* seconds since the call started
    p_captured,     \* frames scapy's sniff has captured in this call
    p_attempts,     \* connection / capture attempts made in this call
    p_exc,          \* the exception raised inside the call, "none" if none
    p_result,       \* the value the call returned
    last_report,    \* what the caller got from the latest finished call
    prev_report,    \* what the caller got from the call before it
    ui_message,     \* what the Start Discovery handler showed last
    discovered_devices, \* the keys of DeviceDiscovery.discovered_devices
    \* ---- the network_devices table
    network_devices, \* the committed rows
    next_id,         \* the next value of the id sequence
    db_commits,      \* number of committed transactions on the table
    db_call,         \* the latest add_network_device / seed_devices call
    db_now,          \* the clock datetime.utcnow reads, in whole time units
    \* ---- probe calls running at the same time (one thread per session)
    tasks,           \* per task: position, probe, the target's answer, result
    frames,          \* per call frame: the locals holding the target's answer
    conc_overlap,    \* whether a call was started while another was running
    \* ---- the Critical Nodes Analysis of the Topology Analysis tab
    a_pc,            \* "input" before, "computed" after the centrality call
    analysis_size,   \* number of nodes of the graph (nodes 0..analysis_size-1)
    G_analysis,      \* the edges of the graph handed to the centrality call
    betweenness,     \* the dict betweenness, as numerators over BetweennessDen
    \* ---- the network_configurations table and save_network_configuration
    network_configurations, \* the committed rows
    cfg_session,     \* the rows as the open transaction sees them
    cfg_pc,          \* position in save_network_configuration
    config_data,     \* the argument of the call in progress
    cfg_i,           \* entries of config_data["networks"] added so far
    cfg_next_id,     \* the next value of the id sequence
    cfg_before,      \* the committed rows when the call began
    cfg_saves,       \* number of calls made
    \* ---- seed_data.py: the five tables and seed_database
    sd_pc,           \* position in seed_database
    table_rows,      \* table name -> number of committed rows
    empty_flags,     \* table name -> what check_table_empty returned
    sd_device_ids,   \* len(device_ids)
    rows_before,     \* table_rows when the call in progress began
    sd_runs,         \* number of calls of seed_database made
    sd_prev_ok,      \* whether the call before the current one returned
    \* ---- database/init_data.py: initialize_database
    id_pc,           \* position in initialize_database
    id_i,            \* items of the loop in progress handled so far
    id_rows,         \* table name -> number of committed rows
    id_value,        \* the generated status or severity of the item in hand
    \* ---- utils.py: get_current_phase, get_phase_progress; app.py's roadmap
    ph_pc,           \* where the run of the page is, or how the last one ended
    ph_elapsed,      \* time.time() - project_start_time, in 1/DayParts days
    elapsed_days,    \* get_phase_progress: elapsed_days, in 1/DayParts days
    current_phase,   \* app.py: current_phase
    phase_progress,  \* app.py: phase_progress, as <<numerator, denominator>>
    \* ---- pages/6_Incident_Response.py: the incident shown under Details
    inc_status,      \* incident["status"]
    inc_assigned_to, \* incident["assigned_to"]
    inc_timeline,    \* incident["timeline"]
    inc_notes,       \* incident["notes"]
    new_status,      \* the value of the "Change Status" selectbox
    new_assignee,    \* the value of the "Reassign To" text input
    inc_message,     \* the message the last run of the page showed
    \* ---- pages/0_Configuration.py: the session configuration and its copies
    pg_networks,     \* st.session_state.network_config["networks"]
    pg_schedule,     \* st.session_state.network_config["scan_schedule"]
    scan_schedule,   \* the value of the "Scan Schedule" selectbox
    pg_rows,         \* the rows of network_configurations the page stored
    pg_file,         \* the content of network_config.json
    pg_message       \* the message the last run of the page showed

graph_vars == <<g_pc, num_nodes, num_edges, g_i, G_nodes, G_edges, pos,
                metric_kind, metric_value,
                 total_devices, total_connections>>
vuln_vars == <<v_pc, v_i, rowA, rowB>>
probe_vars == <<p_pc, p_probe, p_clock, p_captured, p_attempts, p_exc,
                p_result, last_report, prev_report, ui_message,
                discovered_devices>>
db_vars == <<network_devices, next_id, db_commits, db_call, db_now>>
conc_vars == <<tasks, frames, conc_overlap>>
analysis_vars == <<a_pc, analysis_size, G_analysis, betweenness>>
config_vars == <<network_configurations, cfg_session, cfg_pc, config_data, cfg_i,
                 cfg_next_id, cfg_before, cfg_saves>>
base_vars == <<graph_vars, vuln_vars, probe_vars, db_vars, conc_vars, analysis_vars,
               config_vars>>
seed_vars == <<sd_pc, table_rows, empty_flags, sd_device_ids, rows_before, sd_runs,
               sd_prev_ok>>
\* the groups of the parts that follow the configuration table
initdb_vars == <<id_pc, id_i, id_rows, id_value>>
phase_vars == <<ph_pc, ph_elapsed, elapsed_days, current_phase, phase_progress>>
incident_vars == <<inc_status, inc_assigned_to, inc_timeline, inc_notes, new_status,
                   new_assignee, inc_message>>
page_vars == <<pg_networks, pg_schedule, scan_schedule, pg_rows, pg_file, pg_message>>
rest_vars == <<seed_vars, initdb_vars, phase_vars, incident_vars, page_vars>>
\* what the actions of a part leave alone
seed_frame == <<base_vars, initdb_vars, phase_vars, incident_vars, page_vars>>
initdb_frame == <<base_vars, seed_vars, phase_vars, incident_vars, page_vars>>
phase_frame == <<base_vars, seed_vars, initdb_vars, incident_vars, page_vars>>
incident_frame == <<base_vars, seed_vars, initdb_vars, phase_vars, page_vars>>
page_frame == <<base_vars, seed_vars, initdb_vars, phase_vars, incident_vars>>
vars == <<base_vars, rest_vars>>

(***************************************************************************)
(* Bounds of the model.                                                    *)
(***************************************************************************)
MaxNodes == 4
MaxEdges == 4

(***************************************************************************)
(* utils.py: create_network_graph.  The node attributes (type, status) and *)
(* the coordinates are drawn and stored per node and decide nothing about  *)
(* the graph's structure; the model keeps the node set, the edge set and   *)
(* the keys of pos.                                                        *)
(***************************************************************************)

\* random.randint(0, num_nodes-1): the values it can return
\* (faulty variant: the upper end one too high)
RandintNodes_OffByOne(n) == 0 .. n
RandintNodes(n) == 0 .. (n - 1)

GraphInit ==
    /\ g_pc = "add_nodes"
    /\ num_nodes \in 1 .. MaxNodes
    /\ num_edges \in 0 .. MaxEdges
    /\ g_i = 0
    /\ G_nodes = {}
    /\ G_edges = {}
    /\ pos = {}
    /\ metric_kind = "none"
    /\ metric_value = 0
    /\ total_devices = 0
    /\ total_connections = 0

\* for i in range(num_nodes): G.add_node(i, ...)
AddNode ==
    /\ g_pc = "add_nodes"
    /\ g_i < num_nodes
    /\ G_nodes' = G_nodes \cup {g_i}
    /\ g_i' = g_i + 1
    /\ UNCHANGED <<g_pc, num_nodes, num_edges, G_edges, pos, metric_kind, metric_value,
                 total_devices, total_connections>>
    /\ UNCHANGED <<vuln_vars, probe_vars, db_vars, conc_vars, analysis_vars, config_vars, rest_vars>>

AddNodesDone ==
    /\ g_pc = "add_nodes"
    /\ g_i >= num_nodes
    /\ g_pc' = "add_edges"
    /\ UNCHANGED <<num_nodes, num_edges, g_i, G_nodes, G_edges, pos, metric_kind, metric_value,
                 total_devices, total_connections>>
    /\ UNCHANGED <<vuln_vars, probe_vars, db_vars, conc_vars, analysis_vars, config_vars, rest_vars>>

\* one iteration of "while len(G.edges) < num_edges": two draws, and
\* G.add_edge(u, v) when they differ. networkx's add_edge adds an endpoint
\* that is not yet a node, and an edge already present is not added again.
\* (faulty variant: without the test "if u != v")
AddEdgeIter_NoSelfCheck ==
    /\ g_pc = "add_edges"
    /\ Cardinality(G_edges) < num_edges
    /\ \E u \in RandintNodes(num_nodes), v \in RandintNodes(num_nodes) :
          /\ G_nodes' = G_nodes \cup {u, v}
          /\ G_edges' = G_edges \cup {{u, v}}
    /\ UNCHANGED <<g_pc, num_nodes, num_edges, g_i, pos, metric_kind, metric_value,
                 total_devices, total_connections>>
    /\ UNCHANGED <<vuln_vars, probe_vars, db_vars, conc_vars, analysis_vars, config_vars, rest_vars>>

AddEdgeIter ==
    /\ g_pc = "add_edges"
    /\ Cardinality(G_edges) < num_edges
    /\ \E u \in RandintNodes(num_nodes), v \in RandintNodes(num_nodes) :
          IF u # v
          THEN /\ G_nodes' = G_nodes \cup {u, v}
               /\ G_edges' = G_edges \cup {{u, v}}
          ELSE UNCHANGED <<G_nodes, G_edges>>
    /\ UNCHANGED <<g_pc, num_nodes, num_edges, g_i, pos, metric_kind, metric_value,
                 total_devices, total_connections>>
    /\ UNCHANGED <<vuln_vars, probe_vars, db_vars, conc_vars, analysis_vars, config_vars, rest_vars>>

AddEdgesDone ==
    /\ g_pc = "add_edges"
    /\ Cardinality(G_edges) >= num_edges
    /\ g_pc' = "layout"
    /\ UNCHANGED <<num_nodes, num_edges, g_i, G_nodes, G_edges, pos, metric_kind, metric_value,
                 total_devices, total_connections>>
    /\ UNCHANGED <<vuln_vars, probe_vars, db_vars, conc_vars, analysis_vars, config_vars, rest_vars>>

\* for i in range(num_nodes): pos[i] = (...)
Layout ==
    /\ g_pc = "layout"
    /\ pos' = 0 .. (num_nodes - 1)
    /\ g_pc' = "edge_traces"
    /\ UNCHANGED <<num_nodes, num_edges, g_i, G_nodes, G_edges, metric_kind, metric_value,
                 total_devices, total_connections>>
    /\ UNCHANGED <<vuln_vars, probe_vars, db_vars, conc_vars, analysis_vars, config_vars, rest_vars>>

\* for edge in G.edges(): x0, y0 = pos[edge[0]]; x1, y1 = pos[edge[1]]
\* A key that pos does not hold raises KeyError out of the function.
EdgeTraces ==
    /\ g_pc = "edge_traces"
    /\ g_pc' = IF \A e \in G_edges : e \subseteq pos THEN "built" ELSE "KeyError"
    /\ UNCHANGED <<num_nodes, num_edges, g_i, G_nodes, G_edges, pos, metric_kind, metric_value,
                 total_devices, total_connections>>
    /\ UNCHANGED <<vuln_vars, probe_vars, db_vars, conc_vars, analysis_vars, config_vars, rest_vars>>

(***************************************************************************)
(* pages/4_Network_Topology.py: the Network Diameter metric.               *)
(* nx.diameter(G) is max(eccentricity(G).values()); eccentricity runs a    *)
(* breadth-first search from every node and raises NetworkXError when one  *)
(* of them does not reach every node.                                      *)
(***************************************************************************)
Neighbors(n, E) == {m \in UNION E : {n, m} \in E /\ m # n}

RECURSIVE BFS(_, _, _, _)
\* single_source_shortest_path_length: dist maps the nodes reached so far
BFS(E, dist, frontier, level) ==
    IF frontier = {} THEN dist
    ELSE LET next == {m \in UNION {Neighbors(n, E) : n \in frontier} : m \notin DOMAIN dist}
             nd == [x \in DOMAIN dist \cup next |->
                        IF x \in DOMAIN dist THEN dist[x] ELSE level + 1]
         IN BFS(E, nd, next, level + 1)

shortest_path_length(N, E, source) == BFS(E, [x \in {source} |-> 0], {source}, 0)

SetMax(S) == CHOOSE x \in S : \A y \in S : y <= x

\* eccentricity(G): "raise" stands for NetworkXError("Found infinite path
\* length because the graph is not connected")
eccentricity(N, E) ==
    [n \in N |->
        LET length == shortest_path_length(N, E, n)
        IN IF Cardinality(DOMAIN length) # Cardinality(N)
           THEN -1
           ELSE SetMax({length[x] : x \in DOMAIN length})]

\* the clause "except nx.NetworkXError" (faulty variant: it catches nothing)
CatchesNetworkXError_Not == FALSE
CatchesNetworkXError == TRUE

\* try: diameter = nx.diameter(G); st.metric(value=diameter)
\* except nx.NetworkXError: st.metric(value="N/A (Disconnected)")
DiameterMetric ==
    /\ g_pc = "built"
    /\ total_devices' = num_nodes
    /\ total_connections' = num_edges
    /\ LET e == eccentricity(G_nodes, G_edges)
           raised == \E n \in G_nodes : e[n] = -1
       IN IF raised
          THEN IF CatchesNetworkXError
               THEN /\ metric_kind' = "N/A (Disconnected)"
                    /\ metric_value' = 0
                    /\ g_pc' = "shown"
               ELSE /\ metric_kind' = "none"
                    /\ metric_value' = 0
                    /\ g_pc' = "NetworkXError"
          ELSE /\ metric_kind' = "number"
               /\ metric_value' = SetMax({e[n] : n \in G_nodes})
               /\ g_pc' = "shown"
    /\ UNCHANGED <<num_nodes, num_edges, g_i, G_nodes, G_edges, pos>>
    /\ UNCHANGED <<vuln_vars, probe_vars, db_vars, conc_vars, analysis_vars, config_vars, rest_vars>>

GraphNext ==
    \/ AddNode
    \/ AddNodesDone
    \/ AddEdgeIter
    \/ AddEdgesDone
    \/ Layout
    \/ EdgeTraces
    \/ DiameterMetric

(***************************************************************************)
(* pages/4_Network_Topology.py: "Network Vulnerability Analysis".  The     *)
(* table is rebuilt on every run of the page.  Two runs are modelled side  *)
(* by side, row by row: rowA is the row one run appends for index v_i,     *)
(* rowB the row another run appends for the same index.  The free-text     *)
(* recommendation is display only and is left out of the row.              *)
(***************************************************************************)
NumVulnRows == 5

severity_levels == <<"Critical", "High", "Medium">>

Min(a, b) == IF a <= b THEN a ELSE b

\* the scores of a range kept for the two runs side by side: those within
\* MaxScoreOffset of either end
MaxScoreOffset == 0
ScoreDraws(lo, hi) ==
    {r \in lo .. hi : r <= lo + MaxScoreOffset \/ r >= hi - MaxScoreOffset}

\* random.randint(80, 100) / (60, 79) / (40, 59)
RiskScores(severity) ==
    IF severity = "Critical" THEN ScoreDraws(80, 100)
    ELSE IF severity = "High" THEN ScoreDraws(60, 79)
    ELSE ScoreDraws(40, 59)

\* the rows one pass of the loop body can append for index i:
\* severity_levels[random.randint(0, min(i, 2))], random.randint(1, 5),
\* random.randint(0, 3), and a risk score drawn from the severity's range
VulnRows(i) ==
    UNION { { [Severity |-> severity_levels[k + 1], AffectedNodes |-> n,
               AffectedLinks |-> l, RiskScore |-> r] :
                 n \in 1 .. 5, l \in 0 .. 3, r \in RiskScores(severity_levels[k + 1]) } :
            k \in 0 .. Min(i, 2) }

NoRow == [Severity |-> "", AffectedNodes |-> 0, AffectedLinks |-> 0, RiskScore |-> 0]

VulnInit ==
    /\ v_pc = "rowA"
    /\ v_i = 0
    /\ rowA = NoRow
    /\ rowB = NoRow

\* the body of "for i in range(5)" in one run of the page
VulnRowA ==
    /\ v_pc = "rowA"
    /\ v_i < NumVulnRows
    /\ rowA' \in VulnRows(v_i)
    /\ rowB' = NoRow
    /\ v_pc' = "rowB"
    /\ UNCHANGED v_i
    /\ UNCHANGED <<graph_vars, probe_vars, db_vars, conc_vars, analysis_vars, config_vars, rest_vars>>

\* the same pass of the loop in the other run
VulnRowB ==
    /\ v_pc = "rowB"
    /\ rowB' \in VulnRows(v_i)
    /\ v_i' = v_i + 1
    /\ v_pc' = "rowA"
    /\ UNCHANGED rowA
    /\ UNCHANGED <<graph_vars, probe_vars, db_vars, conc_vars, analysis_vars, config_vars, rest_vars>>

\* vuln_df = pd.DataFrame(vuln_data); st.dataframe(...)
VulnShow ==
    /\ v_pc = "rowA"
    /\ v_i >= NumVulnRows
    /\ v_pc' = "shown"
    /\ UNCHANGED <<v_i, rowA, rowB>>
    /\ UNCHANGED <<graph_vars, probe_vars, db_vars, conc_vars, analysis_vars, config_vars, rest_vars>>

\* the page runs again on the next interaction
VulnRerun ==
    /\ v_pc = "shown"
    /\ v_pc' = "rowA"
    /\ v_i' = 0
    /\ rowA' = NoRow
    /\ rowB' = NoRow
    /\ UNCHANGED <<graph_vars, probe_vars, db_vars, conc_vars, analysis_vars, config_vars, rest_vars>>

VulnNext ==
    \/ VulnRowA
    \/ VulnRowB
    \/ VulnShow
    \/ VulnRerun


(***************************************************************************)
(* components/device_discovery.py: the five probes of DeviceDiscovery.     *)
(* One call is in flight at a time (the repository has no concurrent       *)
(* caller).  Time is counted in seconds from the start of the call.  What  *)
(* the libraries do is taken from their documented behaviour: scapy's      *)
(* sniff(timeout=30) captures matching frames for 30 seconds and returns   *)
(* them; paramiko's connect, exec_command and read, and routeros_api's     *)
(* get_api and get, are called without a timeout argument and block until  *)
(* the peer answers or the connection fails.                               *)
(***************************************************************************)
\* seconds one step of the clock stands for, and the last second modelled
ClockStep == 10
MaxClock == 40
MaxFrames == 1
MaxAttempts == 3

SniffTimeout == 30

PassiveProbes == {"discover_lldp", "discover_cdp", "discover_mdp"}
ActiveProbes == {"discover_mikrotik", "discover_cisco"}
Probes == PassiveProbes \cup ActiveProbes

Frames == {"frame1", "frame2"}

\* exceptions the libraries raise, with the text str(e) gives
NoExc == [class |-> "none", msg |-> ""]
SniffExceptions ==
    { [class |-> "OSError", msg |-> "[Errno 19] No such device"],
      [class |-> "PermissionError", msg |-> "[Errno 1] Operation not permitted"] }
ConnectExceptions ==
    { [class |-> "AuthenticationException", msg |-> "Authentication failed."],
      [class |-> "timeout", msg |-> "timed out"],
      [class |-> "ConnectionResetError", msg |-> "[Errno 104] Connection reset by peer"] }
ReadExceptions ==
    { [class |-> "ConnectionResetError", msg |-> "[Errno 104] Connection reset by peer"],
      [class |-> "EOFError", msg |-> ""] }

AuthErrors == {"AuthenticationException"}
TransientErrors == {"timeout", "ConnectionResetError", "EOFError"}

\* what the device can send back: the stdout of "show cdp neighbors detail",
\* the replies of the three RouterOS queries
CiscoOutputs == {"", "Device ID: sw2"}
MikrotikReplies == {"identity=rb1;neighbors=0;interfaces=2"}

\* return values: Python type, content, and the captured frames they carry
NoResult == [type |-> "NoneType", text |-> "", frames |-> <<>>]
TrueResult == [type |-> "bool", text |-> "True", frames |-> <<>>]
StrResult(t) == [type |-> "str", text |-> t, frames |-> <<>>]
DictResult(t) == [type |-> "dict", text |-> t, frames |-> <<>>]

\* str(e): the message, without the class
str(e) == e.msg

\* "except Exception as e: return str(e)": where the call goes from the except
\* clause and with what value.  Faulty variants: the exception leaves the
\* call; the call is started over.
ExceptClause_Propagates(e) == [pc |-> "escaped", result |-> NoResult]
ExceptClause_Retries(e) == [pc |-> "entered", result |-> NoResult]
ExceptClause(e) == [pc |-> "returned", result |-> StrResult(str(e))]

NoReport == [probe |-> "none", raised |-> FALSE, result |-> NoResult]

\* self.discovered_devices after a call of a discover_* method: no method
\* assigns to it or stores into it
\* (faulty variant: the call records the probe that ran)
SelfAfterCall_Records(discovered, probe) == discovered \cup {probe}
SelfAfterCall(discovered, probe) == discovered

ProbeInit ==
    /\ p_pc = "idle"
    /\ p_probe = "none"
    /\ p_clock = 0
    /\ p_captured = <<>>
    /\ p_attempts = 0
    /\ p_exc = NoExc
    /\ p_result = NoResult
    /\ last_report = NoReport
    /\ prev_report = NoReport
    /\ ui_message = ""
    /\ discovered_devices = {}

\* a caller invokes discovery.discover_*(...)
Call(probe) ==
    /\ p_pc = "idle"
    /\ p_pc' = "entered"
    /\ p_probe' = probe
    /\ p_clock' = 0
    /\ p_captured' = <<>>
    /\ p_attempts' = 0
    /\ p_exc' = NoExc
    /\ p_result' = NoResult
    /\ UNCHANGED <<last_report, prev_report, ui_message>>
    /\ UNCHANGED discovered_devices
    /\ UNCHANGED <<graph_vars, vuln_vars, db_vars, conc_vars, analysis_vars, config_vars, rest_vars>>

\* sniff(iface=interface, filter=..., timeout=30) opens the capture socket
SniffStart ==
    /\ p_pc = "entered"
    /\ p_probe \in PassiveProbes
    /\ p_attempts < MaxAttempts
    /\ p_attempts' = p_attempts + 1
    /\ \/ /\ p_pc' = "sniffing"
          /\ UNCHANGED p_exc
       \/ \E e \in SniffExceptions :
             /\ p_exc' = e
             /\ p_pc' = "except"
    /\ UNCHANGED <<p_probe, p_clock, p_captured, p_result, last_report, prev_report, ui_message>>
    /\ UNCHANGED discovered_devices
    /\ UNCHANGED <<graph_vars, vuln_vars, db_vars, conc_vars, analysis_vars, config_vars, rest_vars>>

\* a frame matching the filter arrives and is parsed into sniff's list
SniffCapture(f) ==
    /\ p_pc = "sniffing"
    /\ p_clock < SniffTimeout
    /\ Len(p_captured) < MaxFrames
    /\ p_captured' = Append(p_captured, f)
    /\ UNCHANGED <<p_pc, p_probe, p_clock, p_attempts, p_exc, p_result, last_report, prev_report, ui_message>>
    /\ UNCHANGED discovered_devices
    /\ UNCHANGED <<graph_vars, vuln_vars, db_vars, conc_vars, analysis_vars, config_vars, rest_vars>>

\* time passes while sniff listens, up to its timeout
SniffTick ==
    /\ p_pc = "sniffing"
    /\ p_clock < SniffTimeout
    /\ p_clock' = Min(p_clock + ClockStep, SniffTimeout)
    /\ UNCHANGED <<p_pc, p_probe, p_captured, p_attempts, p_exc, p_result, last_report, prev_report, ui_message>>
    /\ UNCHANGED discovered_devices
    /\ UNCHANGED <<graph_vars, vuln_vars, db_vars, conc_vars, analysis_vars, config_vars, rest_vars>>

\* the capture socket fails while sniff listens
SniffRaise ==
    /\ p_pc = "sniffing"
    /\ p_clock < SniffTimeout
    /\ \E e \in SniffExceptions :
          /\ p_exc' = e
          /\ p_pc' = "except"
    /\ UNCHANGED <<p_probe, p_clock, p_captured, p_attempts, p_result, last_report, prev_report, ui_message>>
    /\ UNCHANGED discovered_devices
    /\ UNCHANGED <<graph_vars, vuln_vars, db_vars, conc_vars, analysis_vars, config_vars, rest_vars>>

\* sniff returns its list at the timeout; the call drops it: "return True"
SniffReturn ==
    /\ p_pc = "sniffing"
    /\ p_clock = SniffTimeout
    /\ p_result' = TrueResult
    /\ p_pc' = "returned"
    /\ UNCHANGED <<p_probe, p_clock, p_captured, p_attempts, p_exc, last_report, prev_report, ui_message>>
    /\ UNCHANGED discovered_devices
    /\ UNCHANGED <<graph_vars, vuln_vars, db_vars, conc_vars, analysis_vars, config_vars, rest_vars>>

\* ssh.connect(host, username=..., password=...) / connection.get_api()
Connect ==
    /\ p_pc = "entered"
    /\ p_probe \in ActiveProbes
    /\ p_attempts < MaxAttempts
    /\ p_attempts' = p_attempts + 1
    /\ p_pc' = "connecting"
    /\ UNCHANGED <<p_probe, p_clock, p_captured, p_exc, p_result, last_report, prev_report, ui_message>>
    /\ UNCHANGED discovered_devices
    /\ UNCHANGED <<graph_vars, vuln_vars, db_vars, conc_vars, analysis_vars, config_vars, rest_vars>>

\* time passes while the call waits for the host: no deadline is set
WaitTick ==
    /\ p_pc \in {"connecting", "reading"}
    /\ p_clock < MaxClock
    /\ p_clock' = Min(p_clock + ClockStep, MaxClock)
    /\ UNCHANGED <<p_pc, p_probe, p_captured, p_attempts, p_exc, p_result, last_report, prev_report, ui_message>>
    /\ UNCHANGED discovered_devices
    /\ UNCHANGED <<graph_vars, vuln_vars, db_vars, conc_vars, analysis_vars, config_vars, rest_vars>>

\* the session is up; the command / the queries are sent
SessionUp ==
    /\ p_pc = "connecting"
    /\ p_pc' = "reading"
    /\ UNCHANGED <<p_probe, p_clock, p_captured, p_attempts, p_exc, p_result, last_report, prev_report, ui_message>>
    /\ UNCHANGED discovered_devices
    /\ UNCHANGED <<graph_vars, vuln_vars, db_vars, conc_vars, analysis_vars, config_vars, rest_vars>>

ConnectRaise ==
    /\ p_pc = "connecting"
    /\ \E e \in ConnectExceptions :
          /\ p_exc' = e
          /\ p_pc' = "except"
    /\ UNCHANGED <<p_probe, p_clock, p_captured, p_attempts, p_result, last_report, prev_report, ui_message>>
    /\ UNCHANGED discovered_devices
    /\ UNCHANGED <<graph_vars, vuln_vars, db_vars, conc_vars, analysis_vars, config_vars, rest_vars>>

\* "return stdout.read().decode()" / "return {'identity': ..., ...}"
ReadReturn ==
    /\ p_pc = "reading"
    /\ \/ /\ p_probe = "discover_cisco"
          /\ \E out \in CiscoOutputs : p_result' = StrResult(out)
       \/ /\ p_probe = "discover_mikrotik"
          /\ \E reply \in MikrotikReplies : p_result' = DictResult(reply)
    /\ p_pc' = "returned"
    /\ UNCHANGED <<p_probe, p_clock, p_captured, p_attempts, p_exc, last_report, prev_report, ui_message>>
    /\ UNCHANGED discovered_devices
    /\ UNCHANGED <<graph_vars, vuln_vars, db_vars, conc_vars, analysis_vars, config_vars, rest_vars>>

ReadRaise ==
    /\ p_pc = "reading"
    /\ \E e \in ReadExceptions :
          /\ p_exc' = e
          /\ p_pc' = "except"
    /\ UNCHANGED <<p_probe, p_clock, p_captured, p_attempts, p_result, last_report, prev_report, ui_message>>
    /\ UNCHANGED discovered_devices
    /\ UNCHANGED <<graph_vars, vuln_vars, db_vars, conc_vars, analysis_vars, config_vars, rest_vars>>

\* except Exception as e: return str(e)
Except ==
    /\ p_pc = "except"
    /\ p_pc' = ExceptClause(p_exc).pc
    /\ p_result' = ExceptClause(p_exc).result
    /\ UNCHANGED <<p_probe, p_clock, p_captured, p_attempts, p_exc, last_report, prev_report, ui_message>>
    /\ UNCHANGED discovered_devices
    /\ UNCHANGED <<graph_vars, vuln_vars, db_vars, conc_vars, analysis_vars, config_vars, rest_vars>>

\* the caller receives the returned value; the call's locals are gone
Return ==
    /\ p_pc = "returned"
    /\ p_pc' = "idle"
    /\ prev_report' = last_report
    /\ last_report' = [probe |-> p_probe, raised |-> p_exc # NoExc, result |-> p_result]
    /\ p_probe' = "none"
    /\ p_clock' = 0
    /\ p_captured' = <<>>
    /\ p_attempts' = 0
    /\ p_exc' = NoExc
    /\ p_result' = NoResult
    /\ discovered_devices' = SelfAfterCall(discovered_devices, p_probe)
    /\ UNCHANGED ui_message
    /\ UNCHANGED <<graph_vars, vuln_vars, db_vars, conc_vars, analysis_vars, config_vars, rest_vars>>

(***************************************************************************)
(* pages/5_Device_Inventory.py: the Start Discovery handler.  The page     *)
(* imports nothing named DeviceDiscovery, so "discovery = DeviceDiscovery()"*)
(* raises NameError inside the try block, whichever method is selected,    *)
(* and the except clause shows it.                                         *)
(***************************************************************************)
DiscoveryMethods == {"LLDP", "CDP", "Mikrotik API", "Cisco SSH", "SNMP"}

StartDiscovery(discovery_method) ==
    /\ p_pc = "idle"
    /\ ui_message' = "Discovery failed: name 'DeviceDiscovery' is not defined"
    /\ UNCHANGED <<p_pc, p_probe, p_clock, p_captured, p_attempts, p_exc, p_result,
                   last_report, prev_report>>
    /\ UNCHANGED discovered_devices
    /\ UNCHANGED <<graph_vars, vuln_vars, db_vars, conc_vars, analysis_vars, config_vars, rest_vars>>

ProbeNext ==
    \/ \E probe \in Probes : Call(probe)
    \/ SniffStart
    \/ \E f \in Frames : SniffCapture(f)
    \/ SniffTick
    \/ SniffRaise
    \/ SniffReturn
    \/ Connect
    \/ WaitTick
    \/ SessionUp
    \/ ConnectRaise
    \/ ReadReturn
    \/ ReadRaise
    \/ Except
    \/ Return
    \/ \E m \in DiscoveryMethods : StartDiscovery(m)


(***************************************************************************)
(* database/models.py, database/db_utils.py, seed_data.py: the table       *)
(* network_devices.  A row keeps the columns the properties read: id (the  *)
(* primary key), device_id (unique, not null), device_name, ip_address and *)
(* mac_address (no uniqueness constraint), status (Enum(DeviceStatus)) and *)
(* last_updated (default datetime.utcnow).  A device_id "DEV-00001" is     *)
(* written 1, and 0 stands for a missing one (None); a missing MAC or IP   *)
(* address is "".                                                          *)
(***************************************************************************)
MaxDevices == 2
MaxNow == 3
\* the grace and retention periods of the device lifecycle, in time units
GracePeriod == 1
RetentionPeriod == 2

NoDeviceId == 0
DeviceIds == 1 .. MaxDevices
MacAddresses == {"aa:bb:cc:dd:ee:ff", "11:22:33:44:55:66"}
NoMac == ""
IpAddresses == {"10.0.0.5"}
NoIp == ""
DeviceNames == {"sw1", "switch-unknown"}

\* class DeviceStatus(enum.Enum): the values DeviceStatus(s) accepts
DeviceStatus == {"online", "warning", "offline", "maintenance"}

\* the records callers pass to add_network_device in the model: one of three
\* status strings and no IP address (rows of the other statuses, with an IP
\* address, are the ones seed_devices stores)
StatusInputs == {"online", "offline", "unknown"}

DeviceData == [device_id : DeviceIds \cup {NoDeviceId},
               device_name : {"dev"},
               ip_address : {NoIp},
               mac_address : MacAddresses \cup {NoMac},
               status : StatusInputs]

\* the device records a discovery run hands over: what was observed of the
\* host at one IP address, with or without its MAC address, under one of two
\* names
ObservedData == [device_id : DeviceIds,
                 device_name : DeviceNames,
                 ip_address : IpAddresses,
                 mac_address : {"aa:bb:cc:dd:ee:ff", NoMac},
                 status : {"online", "unknown"}]

NoData == [device_id |-> NoDeviceId, device_name |-> "", ip_address |-> NoIp,
           mac_address |-> NoMac, status |-> ""]

\* device_id = Column(String(50), unique=True, nullable=False)
\* (faulty variant: the column without unique=True)
DeviceIdAccepted_NotUnique(rows, device_id) == device_id # NoDeviceId
DeviceIdAccepted(rows, device_id) ==
    /\ device_id # NoDeviceId
    /\ \A r \in rows : r.device_id # device_id

DbInit ==
    /\ network_devices = {}
    /\ next_id = 1
    /\ db_commits = 0
    /\ db_call = [op |-> "none", data |-> NoData, outcome |-> "none"]
    /\ db_now = 0

\* add_network_device(device_data): on any exception the session is rolled
\* back and the exception is raised again
add_network_device(device_data) ==
    IF device_data.status \notin DeviceStatus
    THEN \* DeviceStatus(device_data['status']) raises ValueError
         /\ db_call' = [op |-> "add_network_device", data |-> device_data,
                        outcome |-> "ValueError"]
         /\ UNCHANGED <<network_devices, next_id, db_commits, db_now>>
    ELSE IF ~DeviceIdAccepted(network_devices, device_data.device_id)
    THEN \* session.commit() raises IntegrityError
         /\ db_call' = [op |-> "add_network_device", data |-> device_data,
                        outcome |-> "IntegrityError"]
         /\ UNCHANGED <<network_devices, next_id, db_commits, db_now>>
    ELSE /\ network_devices' = network_devices \cup
                { [id |-> next_id, device_id |-> device_data.device_id,
                   device_name |-> device_data.device_name,
                   ip_address |-> device_data.ip_address,
                   mac_address |-> device_data.mac_address,
                   status |-> device_data.status,
                   last_updated |-> db_now] }
         /\ UNCHANGED db_now
         /\ next_id' = next_id + 1
         /\ db_commits' = db_commits + 1
         /\ db_call' = [op |-> "add_network_device", data |-> device_data,
                        outcome |-> "ok"]

\* mock_generator.py: the list generate_device_inventory draws status from
GeneratedStatuses == {"online", "offline", "warning", "maintenance"}

\* seed_devices(count): generate_device_inventory(count) numbers the devices
\* DEV-00001 .. and draws each IP address (get_random_ip), MAC address
\* (get_random_mac) and status at random; every row is added and flushed,
\* and one commit ends the loop.  A flush that fails raises out of the
\* function with nothing committed.
seed_devices(count) ==
    IF \E i \in 1 .. count : ~DeviceIdAccepted(network_devices, i)
    THEN /\ db_call' = [op |-> "seed_devices", data |-> NoData,
                        outcome |-> "IntegrityError"]
         /\ UNCHANGED <<network_devices, next_id, db_commits, db_now>>
    ELSE \E macs \in [1 .. count -> MacAddresses],
            sts \in [1 .. count -> GeneratedStatuses],
            ips \in [1 .. count -> IpAddresses] :
            /\ network_devices' = network_devices \cup
                   { [id |-> next_id + i - 1, device_id |-> i,
                      device_name |-> "dev", ip_address |-> ips[i],
                      mac_address |-> macs[i], status |-> sts[i],
                      last_updated |-> db_now] : i \in 1 .. count }
            /\ UNCHANGED db_now
            /\ next_id' = next_id + count
            /\ db_commits' = db_commits + 1
            /\ db_call' = [op |-> "seed_devices", data |-> NoData, outcome |-> "ok"]

\* a caller adds one device
AddDevice ==
    /\ \E device_data \in DeviceData : add_network_device(device_data)
    /\ UNCHANGED <<graph_vars, vuln_vars, probe_vars, conc_vars, analysis_vars, config_vars, rest_vars>>

\* a caller seeds the table
SeedDevices ==
    /\ \E count \in 1 .. MaxDevices : seed_devices(count)
    /\ UNCHANGED <<graph_vars, vuln_vars, probe_vars, conc_vars, analysis_vars, config_vars, rest_vars>>

DbNext ==
    \/ AddDevice
    \/ SeedDevices

\* a discovery run hands one observed device to add_network_device
ObserveDevice ==
    /\ \E device_data \in ObservedData : add_network_device(device_data)
    /\ UNCHANGED <<graph_vars, vuln_vars, probe_vars, conc_vars, analysis_vars, config_vars, rest_vars>>

\* time passes; no function of db_utils.py reads the clock against the stored
\* rows, updates a stored device or deletes one
ClockTick ==
    /\ db_now < MaxNow
    /\ db_now' = db_now + 1
    /\ UNCHANGED <<network_devices, next_id, db_commits, db_call>>
    /\ UNCHANGED <<graph_vars, vuln_vars, probe_vars, conc_vars, analysis_vars, config_vars, rest_vars>>

IdentityNext ==
    \/ ObserveDevice
    \/ ClockTick

(***************************************************************************)
(* components/device_discovery.py: the discover_* methods of one           *)
(* DeviceDiscovery object called from several threads at once, so calls    *)
(* against one target can overlap.  The callers are code that invokes the  *)
(* methods directly: the Start Discovery handler of the Device Inventory   *)
(* page raises NameError at DeviceDiscovery() and never reaches a probe.   *)
(* A call is cut in three steps: it is entered, the library call inside    *)
(* the try block answers (a value or an exception, kept in the call's      *)
(* locals), and the call returns.                                          *)
(***************************************************************************)
MaxTasks == 2

Tasks == 1 .. MaxTasks

\* what the target answers to one call of a probe: an exception out of the
\* library call, or the output read
Responses(probe) ==
    IF probe \in PassiveProbes
    THEN {[exc |-> e, out |-> ""] : e \in {NoExc} \cup SniffExceptions}
    ELSE {[exc |-> e, out |-> ""] : e \in ConnectExceptions \cup ReadExceptions}
         \cup {[exc |-> NoExc, out |-> o] :
                  o \in IF probe = "discover_cisco" THEN CiscoOutputs
                                                   ELSE MikrotikReplies}

NoResponse == [exc |-> NoExc, out |-> ""]

\* the return statement of a probe, given what its locals hold
ReturnValue(probe, response) ==
    IF response.exc # NoExc THEN StrResult(str(response.exc))
    ELSE IF probe \in PassiveProbes THEN TrueResult
    ELSE IF probe = "discover_cisco" THEN StrResult(response.out)
    ELSE DictResult(response.out)

\* the frame that holds the locals of task t's call: every call has its own
FrameOf(t) == t

NoTask == [pc |-> "idle", probe |-> "none", target |-> NoResponse, result |-> NoResult]

ConcInit ==
    /\ tasks = [t \in Tasks |-> NoTask]
    /\ frames = [t \in Tasks |-> NoResponse]
    /\ conc_overlap = FALSE

\* a thread enters a discover_* method; the target's answer to this call is
\* fixed here
TaskCall(t) ==
    /\ tasks[t].pc = "idle"
    /\ \E probe \in Probes : \E response \in Responses(probe) :
          tasks' = [tasks EXCEPT ![t] = [pc |-> "entered", probe |-> probe,
                                         target |-> response, result |-> NoResult]]
    /\ conc_overlap' = (conc_overlap \/
                           \E o \in Tasks \ {t} : tasks[o].pc \in {"entered", "answered"})
    /\ UNCHANGED frames
    /\ UNCHANGED <<graph_vars, vuln_vars, probe_vars, db_vars, analysis_vars, config_vars, rest_vars>>

\* the library call inside the try block answers
TaskAnswer(t) ==
    /\ tasks[t].pc = "entered"
    /\ frames' = [frames EXCEPT ![FrameOf(t)] = tasks[t].target]
    /\ tasks' = [tasks EXCEPT ![t].pc = "answered"]
    /\ UNCHANGED conc_overlap
    /\ UNCHANGED <<graph_vars, vuln_vars, probe_vars, db_vars, analysis_vars, config_vars, rest_vars>>

\* the return statement, or the except clause's
TaskReturn(t) ==
    /\ tasks[t].pc = "answered"
    /\ tasks' = [tasks EXCEPT ![t].pc = "returned",
                              ![t].result = ReturnValue(tasks[t].probe, frames[FrameOf(t)])]
    /\ UNCHANGED <<frames, conc_overlap>>
    /\ UNCHANGED <<graph_vars, vuln_vars, probe_vars, db_vars, analysis_vars, config_vars, rest_vars>>

ConcNext ==
    \/ \E t \in Tasks : TaskCall(t)
    \/ \E t \in Tasks : TaskAnswer(t)
    \/ \E t \in Tasks : TaskReturn(t)

(***************************************************************************)
(* pages/4_Network_Topology.py, Critical Nodes Analysis:                   *)
(* betweenness = nx.betweenness_centrality(G_analysis), with networkx's    *)
(* defaults (normalized=True, endpoints=False, unweighted).  The value of  *)
(* a node v is the sum, over the ordered pairs (s, t) of other nodes with  *)
(* t reachable from s, of the share of the shortest s-t paths that pass    *)
(* through v, divided by (n-1)(n-2).  The shares are fractions: a value is *)
(* kept as its numerator over the common denominator BetweennessDen(n).    *)
(***************************************************************************)
MaxAnalysisNodes == 5
MaxAnalysisEdges == 4

\* nx.barabasi_albert_graph(analysis_size, 3): the number of edges a new node
\* attaches with
AttachEdges == 3

RECURSIVE Factorial(_)
Factorial(k) == IF k <= 1 THEN 1 ELSE k * Factorial(k - 1)

RECURSIVE SetSum(_, _)
SetSum(S, f) ==
    IF S = {} THEN 0
    ELSE LET x == CHOOSE y \in S : TRUE
         IN f[x] + SetSum(S \ {x}, f)

\* every count of shortest paths between two of n nodes divides PathScale(n)
PathScale(n) == Factorial(n - 2)

BetweennessDen(n) == PathScale(n) * (n - 1) * (n - 2)

\* the undirected edges possible on the nodes 0..n-1
NodePairs(n) == {{u, v} : u \in 0 .. (n - 1), v \in 0 .. (n - 1)} \ {{u} : u \in 0 .. (n - 1)}

RECURSIVE sigma(_, _, _, _)
\* the number of shortest paths from s to t, dist being the distances from s
sigma(E, dist, s, t) ==
    IF t = s THEN 1
    ELSE LET preds == {u \in Neighbors(t, E) :
                          u \in DOMAIN dist /\ dist[u] = dist[t] - 1}
         IN SetSum(preds, [u \in preds |-> sigma(E, dist, s, u)])

\* the pairs (s, t) whose shortest paths count for node v: endpoints=False
\* leaves out the paths that start or end at v
\* (faulty variant: endpoints=True)
PairsCounted_Endpoints(N, v) == {st \in N \X N : st[1] # st[2]}
PairsCounted(N, v) == {st \in N \X N : st[1] # st[2] /\ st[1] # v /\ st[2] # v}

betweenness_centrality(N, E) ==
    LET n == Cardinality(N)
        dist == [s \in N |-> shortest_path_length(N, E, s)]
        paths == [s \in N |-> [t \in DOMAIN dist[s] |-> sigma(E, dist[s], s, t)]]
        \* the share of the shortest s-t paths through v, times PathScale(n)
        share(v, st) ==
            LET s == st[1]
                t == st[2]
            IN IF /\ t \in DOMAIN dist[s]
                  /\ v \in DOMAIN dist[s]
                  /\ dist[s][v] + dist[v][t] = dist[s][t]
               THEN (paths[s][v] * paths[v][t] * PathScale(n)) \div paths[s][t]
               ELSE 0
    IN [v \in N |->
           LET counted == PairsCounted(N, v)
           IN SetSum(counted, [st \in counted |-> share(v, st)])]

\* the star on the nodes 0..n-1 with the given hub
Star(n, hub) == {{hub, leaf} : leaf \in (0 .. (n - 1)) \ {hub}}

RECURSIVE barabasi_albert_graph(_, _)
\* nx.barabasi_albert_graph(n, m), as the set of edge sets it can return: the
\* first m+1 nodes form a star (around node 0, or around node m in the
\* releases of networkx that start from m isolated nodes), and every further
\* node is linked to m distinct nodes drawn among the existing ones, each of
\* which has an edge already
barabasi_albert_graph(n, m) ==
    IF n = m + 1 THEN {Star(n, 0), Star(n, m)}
    ELSE {E \cup {{n - 1, t} : t \in targets} :
             E \in barabasi_albert_graph(n - 1, m),
             targets \in {T \in SUBSET (0 .. (n - 2)) : Cardinality(T) = m}}

\* analysis_size = random.randint(50, 100), cut down to the sizes from the
\* smallest the generator accepts (m + 1) up to MaxAnalysisNodes, and
\* G_analysis = nx.barabasi_albert_graph(analysis_size, 3)
AnalysisInit ==
    /\ a_pc = "input"
    /\ analysis_size \in (AttachEdges + 1) .. MaxAnalysisNodes
    /\ G_analysis \in barabasi_albert_graph(analysis_size, AttachEdges)
    /\ betweenness = << >>

\* nx.betweenness_centrality(G) as a function of its argument: G is one of
\* the graphs the page builds, or any graph of up to MaxAnalysisNodes nodes
\* and MaxAnalysisEdges edges (the stars are among these)
CentralityInputs ==
    /\ a_pc = "input"
    /\ analysis_size \in 1 .. MaxAnalysisNodes
    /\ G_analysis \in
          {E \in SUBSET NodePairs(analysis_size) : Cardinality(E) <= MaxAnalysisEdges}
          \cup (IF analysis_size > AttachEdges
                THEN barabasi_albert_graph(analysis_size, AttachEdges)
                ELSE {})
    /\ betweenness = << >>

BetweennessCentrality ==
    /\ a_pc = "input"
    /\ a_pc' = "computed"
    /\ betweenness' = betweenness_centrality(0 .. (analysis_size - 1), G_analysis)
    /\ UNCHANGED <<analysis_size, G_analysis>>
    /\ UNCHANGED <<graph_vars, vuln_vars, probe_vars, db_vars, conc_vars, config_vars, rest_vars>>

AnalysisNext == BetweennessCentrality

(***************************************************************************)
(* database/db_utils.py, save_network_configuration: one transaction that  *)
(* deletes every row of network_configurations, adds one row per entry of  *)
(* config_data["networks"] and commits.  The committed rows are what every *)
(* other session reads; the open transaction works on its own view of the  *)
(* table until the commit.  Any exception leads to the except clause:      *)
(* session.rollback() and raise.  An entry of "networks" is kept as its    *)
(* address, its name and whether the dict has all the keys the loop reads  *)
(* (a missing key raises KeyError); an address None violates               *)
(* nullable=False when the commit flushes the row.                         *)
(***************************************************************************)
MaxNetworks == 2
MaxSaves == 3

NoAddress == ""
NetworkEntries == [address : {"10.0.0.0/24", NoAddress},
                   name : {"lan"},
                   complete : BOOLEAN]

ConfigData == UNION {[1 .. k -> NetworkEntries] : k \in 0 .. MaxNetworks}

\* the committed rows after session.query(NetworkConfiguration).delete():
\* the DELETE runs inside the transaction and is not committed
\* (faulty variant: the DELETE is committed at once)
CommittedAfterDelete_Autocommit(committed) == {}
CommittedAfterDelete(committed) == committed

ConfigInit ==
    /\ network_configurations = {}
    /\ cfg_session = {}
    /\ cfg_pc = "idle"
    /\ config_data = << >>
    /\ cfg_i = 0
    /\ cfg_next_id = 1
    /\ cfg_before = {}
    /\ cfg_saves = 0

\* save_network_configuration(config_data) is called; session = get_session()
SaveCall ==
    /\ cfg_pc \in {"idle", "returned", "raised"}
    /\ cfg_saves < MaxSaves
    /\ cfg_saves' = cfg_saves + 1
    /\ config_data' \in ConfigData
    /\ cfg_pc' = "entered"
    /\ cfg_i' = 0
    /\ cfg_before' = network_configurations
    /\ cfg_session' = network_configurations
    /\ UNCHANGED <<network_configurations, cfg_next_id>>
    /\ UNCHANGED <<graph_vars, vuln_vars, probe_vars, db_vars, conc_vars, analysis_vars, rest_vars>>

\* session.query(NetworkConfiguration).delete()
SaveDelete ==
    /\ cfg_pc = "entered"
    /\ cfg_session' = {}
    /\ network_configurations' = CommittedAfterDelete(network_configurations)
    /\ cfg_pc' = "adding"
    /\ UNCHANGED <<config_data, cfg_i, cfg_next_id, cfg_before, cfg_saves>>
    /\ UNCHANGED <<graph_vars, vuln_vars, probe_vars, db_vars, conc_vars, analysis_vars, rest_vars>>

\* one iteration of "for network in config_data['networks']": the row is
\* built and added to the session, or a key is missing and KeyError is raised
SaveAdd ==
    /\ cfg_pc = "adding"
    /\ cfg_i < Len(config_data)
    /\ LET network == config_data[cfg_i + 1]
       IN IF network.complete
          THEN /\ cfg_session' = cfg_session \cup
                      { [id |-> cfg_next_id + cfg_i,
                         network_address |-> network.address,
                         network_name |-> network.name] }
               /\ cfg_i' = cfg_i + 1
               /\ UNCHANGED cfg_pc
          ELSE /\ cfg_pc' = "except"
               /\ UNCHANGED <<cfg_session, cfg_i>>
    /\ UNCHANGED <<network_configurations, config_data, cfg_next_id, cfg_before, cfg_saves>>
    /\ UNCHANGED <<graph_vars, vuln_vars, probe_vars, db_vars, conc_vars, analysis_vars, rest_vars>>

\* session.commit(): the rows are flushed and the transaction's view becomes
\* the committed table, or the flush fails on a row without address
\* (IntegrityError) and nothing is committed; the id sequence keeps the
\* values it handed out before the failure
SaveCommit ==
    /\ cfg_pc = "adding"
    /\ cfg_i >= Len(config_data)
    /\ IF \E r \in cfg_session : r.network_address = NoAddress
       THEN /\ cfg_pc' = "except"
            /\ cfg_next_id' \in cfg_next_id .. (cfg_next_id + cfg_i)
            /\ UNCHANGED network_configurations
       ELSE /\ cfg_pc' = "returned"
            /\ cfg_next_id' = cfg_next_id + cfg_i
            /\ network_configurations' = cfg_session
    /\ UNCHANGED <<cfg_session, config_data, cfg_i, cfg_before, cfg_saves>>
    /\ UNCHANGED <<graph_vars, vuln_vars, probe_vars, db_vars, conc_vars, analysis_vars, rest_vars>>

\* except Exception: session.rollback(); print(...); raise
SaveExcept ==
    /\ cfg_pc = "except"
    /\ cfg_session' = network_configurations
    /\ cfg_pc' = "raised"
    /\ UNCHANGED <<network_configurations, config_data, cfg_i, cfg_next_id, cfg_before,
                   cfg_saves>>
    /\ UNCHANGED <<graph_vars, vuln_vars, probe_vars, db_vars, conc_vars, analysis_vars, rest_vars>>

ConfigNext ==
    \/ SaveCall
    \/ SaveDelete
    \/ SaveAdd
    \/ SaveCommit
    \/ SaveExcept

(***************************************************************************)
(* seed_data.py: seed_database over the five tables.  A table is kept as   *)
(* its number of committed rows: check_table_empty reads only the count,   *)
(* and every seeder only inserts.                                          *)
(***************************************************************************)
MaxRows == 2
MaxSeedRuns == 2

Tables == {"network_devices", "security_events", "device_performance_metrics",
           "network_traffic", "topology_changes"}

\* the counts seed_database passes to the seeders
SeedDeviceCount == 15
SeedEventCount == 30
PointsPerDevice == 24
SeedTrafficCount == 120
SeedTopologyCount == 20
\* SELECT id FROM network_devices LIMIT 15
DeviceIdLimit == 15

\* check_table_empty: SELECT COUNT(*) ... == 0
\* (faulty variant: the answer does not depend on the table)
check_table_empty_Always(rows) == TRUE
check_table_empty(rows) == rows = 0

\* a database state: device_performance_metrics.device_id is a NOT NULL
\* foreign key, so metrics exist only next to devices
SeedInit ==
    /\ sd_pc = "idle"
    /\ table_rows \in [Tables -> 0 .. MaxRows]
    /\ table_rows["device_performance_metrics"] > 0 => table_rows["network_devices"] > 0
    /\ empty_flags = [t \in Tables |-> FALSE]
    /\ sd_device_ids = 0
    /\ rows_before = table_rows
    /\ sd_runs = 0
    /\ sd_prev_ok = FALSE

\* seed_database, lines 187-191: the five flags are read before any seeding
SeedDbStart ==
    /\ sd_pc \in {"idle", "done", "raised"}
    /\ sd_runs < MaxSeedRuns
    /\ sd_pc' = "devices"
    /\ empty_flags' = [t \in Tables |-> check_table_empty(table_rows[t])]
    /\ sd_device_ids' = 0
    /\ rows_before' = table_rows
    /\ sd_runs' = sd_runs + 1
    /\ sd_prev_ok' = (sd_pc = "done")
    /\ UNCHANGED table_rows
    /\ UNCHANGED seed_frame

\* lines 195-204: seed_devices(15), or the ids of up to 15 existing rows
SeedDbDevices ==
    /\ sd_pc = "devices"
    /\ IF empty_flags["network_devices"]
       THEN /\ table_rows' = [table_rows EXCEPT !["network_devices"] = @ + SeedDeviceCount]
            /\ sd_device_ids' = SeedDeviceCount
       ELSE /\ sd_device_ids' = Min(table_rows["network_devices"], DeviceIdLimit)
            /\ UNCHANGED table_rows
    /\ sd_pc' = "events"
    /\ UNCHANGED <<empty_flags, rows_before, sd_runs, sd_prev_ok>>
    /\ UNCHANGED seed_frame

\* lines 207-211: seed_security_events(30, device_ids)
SeedDbEvents ==
    /\ sd_pc = "events"
    /\ IF empty_flags["security_events"]
       THEN table_rows' = [table_rows EXCEPT !["security_events"] = @ + SeedEventCount]
       ELSE UNCHANGED table_rows
    /\ sd_pc' = "metrics"
    /\ UNCHANGED <<empty_flags, sd_device_ids, rows_before, sd_runs, sd_prev_ok>>
    /\ UNCHANGED seed_frame

\* lines 214-218: seed_performance_metrics(device_ids), 24 points per id
SeedDbMetrics ==
    /\ sd_pc = "metrics"
    /\ IF empty_flags["device_performance_metrics"]
       THEN table_rows' = [table_rows EXCEPT !["device_performance_metrics"] =
                                                 @ + sd_device_ids * PointsPerDevice]
       ELSE UNCHANGED table_rows
    /\ sd_pc' = "traffic"
    /\ UNCHANGED <<empty_flags, sd_device_ids, rows_before, sd_runs, sd_prev_ok>>
    /\ UNCHANGED seed_frame

\* lines 221-225: seed_network_traffic(120)
SeedDbTraffic ==
    /\ sd_pc = "traffic"
    /\ IF empty_flags["network_traffic"]
       THEN table_rows' = [table_rows EXCEPT !["network_traffic"] = @ + SeedTrafficCount]
       ELSE UNCHANGED table_rows
    /\ sd_pc' = "topology"
    /\ UNCHANGED <<empty_flags, sd_device_ids, rows_before, sd_runs, sd_prev_ok>>
    /\ UNCHANGED seed_frame

\* lines 228-234: seed_topology_changes(20), then the function returns
SeedDbTopology ==
    /\ sd_pc = "topology"
    /\ IF empty_flags["topology_changes"]
       THEN table_rows' = [table_rows EXCEPT !["topology_changes"] = @ + SeedTopologyCount]
       ELSE UNCHANGED table_rows
    /\ sd_pc' = "done"
    /\ UNCHANGED <<empty_flags, sd_device_ids, rows_before, sd_runs, sd_prev_ok>>
    /\ UNCHANGED seed_frame

\* lines 235-238: a statement of the step in progress raises (the database
\* is unreachable); the step's uncommitted rows are rolled back, the rows
\* the earlier seeders committed stay, and the exception is re-raised
SeedDbExcept ==
    /\ sd_pc \in {"devices", "events", "metrics", "traffic", "topology"}
    /\ sd_pc' = "raised"
    /\ UNCHANGED <<table_rows, empty_flags, sd_device_ids, rows_before, sd_runs, sd_prev_ok>>
    /\ UNCHANGED seed_frame

SeedNext ==
    \/ SeedDbStart
    \/ SeedDbDevices
    \/ SeedDbEvents
    \/ SeedDbMetrics
    \/ SeedDbTraffic
    \/ SeedDbTopology
    \/ SeedDbExcept

\* C21: a run of seed_database adds no row to a table that had data when
\* the run began, and a run that follows a run that returned leaves every
\* table as it found it.
C21_SeedOnlyEmpty ==
    /\ \A t \in Tables : rows_before[t] > 0 => table_rows[t] = rows_before[t]
    /\ sd_prev_ok => table_rows = rows_before

\* a second run has returned after a first that seeded a table next to one
\* that had data
C21_Witness ==
    /\ sd_pc = "done"
    /\ sd_runs = 2
    /\ sd_prev_ok
    /\ table_rows["network_devices"] = SeedDeviceCount
    /\ table_rows["security_events"] \in 1 .. MaxRows
    /\ table_rows = rows_before

\* a first run has returned: it filled an empty table and left a filled one
C21_WitnessFirst ==
    /\ sd_pc = "done"
    /\ sd_runs = 1
    /\ rows_before["network_traffic"] = 0
    /\ table_rows["network_traffic"] = SeedTrafficCount
    /\ rows_before["topology_changes"] > 0
    /\ table_rows["topology_changes"] = rows_before["topology_changes"]

(***************************************************************************)
(* database/init_data.py: initialize_database, started on an empty         *)
(* database.  Tables are kept as row counts.  The statements after the     *)
(* security events loop (lines 60-107) are modelled as far as a run gets.  *)
(***************************************************************************)
\* generate_device_inventory(50), generate_security_events(50)
NumInitDevices == 50
NumInitEvents == 50

\* mock_generator.py: the list generate_security_events draws severity from
GeneratedSeverities == {"Low", "Medium", "High", "Critical"}

\* class AlertSeverity(enum.Enum): the values AlertSeverity(s) accepts
AlertSeverity == {"low", "medium", "high", "critical"}

NoValue == "none"

InitDbInit ==
    /\ id_pc = "init_db"
    /\ id_i = 0
    /\ id_rows = [t \in Tables |-> 0]
    /\ id_value = NoValue

\* line 29: init_db() creates the tables; line 33 generates the devices
InitDbCreate ==
    /\ id_pc = "init_db"
    /\ id_pc' = "devices"
    /\ UNCHANGED <<id_i, id_rows, id_value>>
    /\ UNCHANGED initdb_frame

\* lines 36-42: one device; DeviceStatus(status_str), then
\* add_network_device commits the row
InitDbAddDevice ==
    /\ id_pc = "devices"
    /\ id_i < NumInitDevices
    /\ \E status_str \in GeneratedStatuses :
          /\ id_value' = status_str
          /\ IF status_str \in DeviceStatus
             THEN /\ id_rows' = [id_rows EXCEPT !["network_devices"] = @ + 1]
                  /\ id_i' = id_i + 1
                  /\ UNCHANGED id_pc
             ELSE /\ id_pc' = "ValueError"
                  /\ UNCHANGED <<id_rows, id_i>>
    /\ UNCHANGED initdb_frame

\* line 46: the devices loop is over, the events are generated
InitDbDevicesDone ==
    /\ id_pc = "devices"
    /\ id_i = NumInitDevices
    /\ id_pc' = "events"
    /\ id_i' = 0
    /\ id_value' = NoValue
    /\ UNCHANGED id_rows
    /\ UNCHANGED initdb_frame

\* lines 48-58: one event; AlertSeverity(severity_str) is called on the
\* generated string as it is, outside any try, then add_security_event
InitDbAddEvent ==
    /\ id_pc = "events"
    /\ id_i < NumInitEvents
    /\ \E severity_str \in GeneratedSeverities :
          /\ id_value' = severity_str
          /\ IF severity_str \in AlertSeverity
             THEN /\ id_rows' = [id_rows EXCEPT !["security_events"] = @ + 1]
                  /\ id_i' = id_i + 1
                  /\ UNCHANGED id_pc
             ELSE /\ id_pc' = "ValueError"
                  /\ UNCHANGED <<id_rows, id_i>>
    /\ UNCHANGED initdb_frame

InitDbNext ==
    \/ InitDbCreate
    \/ InitDbAddDevice
    \/ InitDbDevicesDone
    \/ InitDbAddEvent

\* C22: initialize_database, started on an empty database, does not raise,
\* and when it has returned the five tables all hold rows.
C22_InitializesAndSeeds ==
    /\ id_pc # "ValueError"
    /\ id_pc = "returned" => \A t \in Tables : id_rows[t] > 0

(***************************************************************************)
(* utils.py: get_current_phase and get_phase_progress; app.py: the roadmap *)
(* column that passes the progress to st.progress.  Elapsed time is kept   *)
(* in 1/DayParts days, a progress value as an exact fraction               *)
(* <<numerator, denominator>> with a positive denominator.                 *)
(***************************************************************************)
DayParts == 4
MaxElapsedDays == 15

\* the constants of the two functions
Phase1Weeks == 2
Phase2Weeks == 6
Phase3Weeks == 10
Phase1Days == 14
Phase2Start == 14
Phase2Days == 28
Phase3Start == 42
Phase3Days == 28

\* get_current_phase: elapsed_weeks = int(elapsed seconds / 86400)
get_current_phase(elapsed) ==
    LET elapsed_weeks == elapsed \div DayParts
    IN  IF elapsed_weeks < Phase1Weeks THEN 1
        ELSE IF elapsed_weeks < Phase2Weeks THEN 2
        ELSE IF elapsed_weeks < Phase3Weeks THEN 3
        ELSE 4

\* min(x, 1.0) for x = num/den
MinOne(num, den) == IF num < den THEN <<num, den>> ELSE <<1, 1>>

\* get_phase_progress from line 92 on: days is its elapsed_days (read from the
\* clock at line 87), phase what its own call of get_current_phase returned
\* (read from the clock again at line 90)
get_phase_progress(days, phase) ==
    IF phase = 1 THEN MinOne(days, Phase1Days * DayParts)
    ELSE IF phase = 2
         THEN MinOne(days - Phase2Start * DayParts, Phase2Days * DayParts)
    ELSE IF phase = 3
         THEN MinOne(days - Phase3Start * DayParts, Phase3Days * DayParts)
    ELSE <<0, 1>>

\* st.progress accepts a float in [0.0, 1.0]
ProgressInRange(p) == 0 <= p[1] /\ p[1] <= p[2]

\* no run of the page yet: the first call of get_current_phase stores its
\* clock reading as project_start_time
PhaseInit ==
    /\ ph_pc = "start"
    /\ ph_elapsed = 0
    /\ elapsed_days = 0
    /\ current_phase = 1
    /\ phase_progress = <<0, 1>>

\* time passes, between two runs of the page or between two clock readings
\* of one run
PhaseTick ==
    /\ ph_pc # "start"
    /\ ph_elapsed < MaxElapsedDays * DayParts
    /\ ph_elapsed' = ph_elapsed + 1
    /\ UNCHANGED <<ph_pc, elapsed_days, current_phase, phase_progress>>
    /\ UNCHANGED phase_frame

\* app.py line 50: a run of the page starts and get_current_phase reads the
\* clock
PhaseReadPhase ==
    /\ ph_pc \in {"start", "shown", "StreamlitAPIException"}
    /\ current_phase' = get_current_phase(ph_elapsed)
    /\ ph_pc' = "phase_read"
    /\ UNCHANGED <<ph_elapsed, elapsed_days, phase_progress>>
    /\ UNCHANGED phase_frame

\* app.py line 51, utils.py lines 83-89: get_phase_progress reads the clock
PhaseReadElapsed ==
    /\ ph_pc = "phase_read"
    /\ elapsed_days' = ph_elapsed
    /\ ph_pc' = "elapsed_read"
    /\ UNCHANGED <<ph_elapsed, current_phase, phase_progress>>
    /\ UNCHANGED phase_frame

\* utils.py lines 90-102: get_phase_progress calls get_current_phase, which
\* reads the clock a third time, and returns; app.py line 177 hands the value
\* to st.progress
PhaseRender ==
    /\ ph_pc = "elapsed_read"
    /\ phase_progress' = get_phase_progress(elapsed_days, get_current_phase(ph_elapsed))
    /\ ph_pc' = IF ProgressInRange(phase_progress') THEN "shown"
                ELSE "StreamlitAPIException"
    /\ UNCHANGED <<ph_elapsed, elapsed_days, current_phase>>
    /\ UNCHANGED phase_frame

PhaseNext ==
    \/ PhaseTick
    \/ PhaseReadPhase
    \/ PhaseReadElapsed
    \/ PhaseRender

\* C23: for every elapsed time the value get_phase_progress returns lies
\* between 0.0 and 1.0, so the progress bar is always given a value in range.
C23_ProgressInRange ==
    /\ ProgressInRange(phase_progress)
    /\ ph_pc # "StreamlitAPIException"

(***************************************************************************)
(* pages/5_Device_Inventory.py: what a press of Start Discovery is said to *)
(* do.                                                                     *)
(***************************************************************************)
\* the branch of the handler (lines 47-54) that names a method's probe;
\* "SNMP" has no branch
ProbeOfMethod(discovery_method) ==
    CASE discovery_method = "LLDP" -> "discover_lldp"
      [] discovery_method = "CDP" -> "discover_cdp"
      [] discovery_method = "Mikrotik API" -> "discover_mikrotik"
      [] discovery_method = "Cisco SSH" -> "discover_cisco"
      [] OTHER -> "none"

\* C24: for every method of the selector, a press of Start Discovery
\* invokes the probe that matches the selected method, and the page does
\* not report a failed discovery in place of the probe's result.
C24_PressInvokesProbe ==
    [][\A m \in DiscoveryMethods :
          StartDiscovery(m) =>
             /\ p_pc' = "entered"
             /\ p_probe' = ProbeOfMethod(m)
             /\ ui_message' # "Discovery failed: name 'DeviceDiscovery' is not defined"]_vars

(***************************************************************************)
(* utils.py: the edge-adding loop of create_network_graph, and the values  *)
(* the sliders of pages/4_Network_Topology.py hand to it.                  *)
(***************************************************************************)
\* st.slider("Network Size", min_value=10, max_value=50, value=20, step=5)
SizeMin == 10
SizeMax == 50
SliderStep == 5
NetworkSizes == {n \in SizeMin .. SizeMax : (n - SizeMin) % SliderStep = 0}

\* st.slider("Connection Density", min_value=int(network_size * 0.8),
\*           max_value=int(network_size * 2.5),
\*           value=int(network_size * 1.5), step=5)
DensityMin(n) == (n * 8) \div 10
DensityMax(n) == (n * 25) \div 10
DensityDefault(n) == (n * 15) \div 10
ConnectionDensities(n) ==
    {e \in DensityMin(n) .. DensityMax(n) : (e - DensityMin(n)) % SliderStep = 0}
        \cup {DensityDefault(n)}

\* the inputs of the runs whose termination is examined
MaxFairNodes == 3
MaxFairEdges == 3

\* the number of pairs u != v of num_nodes nodes
MaxSimpleEdges(n) == (n * (n - 1)) \div 2

\* the function has not left its two loops
LoopRunning == g_pc \in {"add_nodes", "add_edges"}

\* C25: under fair choice of the endpoints the edge-adding loop is left
\* exactly when num_edges <= num_nodes*(num_nodes-1)/2, and every pair of
\* values the two sliders allow satisfies that condition.
C25_LoopTerminates ==
    /\ \A n \in NetworkSizes : \A e \in ConnectionDensities(n) : e <= MaxSimpleEdges(n)
    /\ [](num_edges > MaxSimpleEdges(num_nodes) => LoopRunning)
    /\ (num_edges <= MaxSimpleEdges(num_nodes)) ~> ~LoopRunning

\* the loop was left with every pair of three nodes joined
C25_Witness ==
    /\ g_pc = "layout"
    /\ num_nodes = 3
    /\ num_edges = MaxSimpleEdges(3)
    /\ Cardinality(G_edges) = num_edges

\* the loop runs with every pair joined and edges still asked for
C25_WitnessStuck ==
    /\ g_pc = "add_edges"
    /\ num_nodes = 2
    /\ Cardinality(G_edges) = MaxSimpleEdges(2)
    /\ num_edges > MaxSimpleEdges(2)

(***************************************************************************)
(* pages/6_Incident_Response.py: the Incident Details tab.  A timeline     *)
(* entry keeps its action; its timestamp (datetime.now()) and user (a      *)
(* fixed string) decide nothing and are left out, as is incident           *)
(* ["updated"].  The page sorts a copy of the timeline for display.        *)
(***************************************************************************)
MaxTimeline == 3
MaxNotes == 1

IncidentStatuses == {"New", "In Progress", "Contained", "Resolved", "Closed"}
Assignees == {"security@example.com", "user1@example.com"}
NoteTexts == {"", "checked the logs"}

\* f"Status changed from {old_status} to {new_status}"
StatusChanged(old, new) == [action |-> "Status changed", from |-> old, to |-> new]
\* f"Reassigned from {old_assignee} to {new_assignee}"
Reassigned(old, new) == [action |-> "Reassigned", from |-> old, to |-> new]
Detected == [action |-> "Incident detected", from |-> "", to |-> ""]

\* lines 378-386: what the handler appends for the status
\* (faulty variant: an entry is appended whether or not the status differs)
StatusEntries_Always(old, new) == <<StatusChanged(old, new)>>
StatusEntries(old, new) == IF new # old THEN <<StatusChanged(old, new)>> ELSE <<>>

\* lines 389-397: what the handler appends for the assignee
AssigneeEntries(old, new) == IF new # old THEN <<Reassigned(old, new)>> ELSE <<>>

\* lines 199-220: the sample incident, and the widgets' initial values
IncidentInit ==
    /\ inc_status = "New"
    /\ inc_assigned_to = "security@example.com"
    /\ inc_timeline = <<Detected>>
    /\ inc_notes = <<>>
    /\ new_status = inc_status
    /\ new_assignee = inc_assigned_to
    /\ inc_message = ""

\* the user picks a status; the page reruns with no button pressed
SelectStatus(s) ==
    /\ new_status' = s
    /\ inc_message' = ""
    /\ UNCHANGED <<inc_status, inc_assigned_to, inc_timeline, inc_notes, new_assignee>>
    /\ UNCHANGED incident_frame

\* the user edits "Reassign To"; the page reruns with no button pressed
TypeAssignee(a) ==
    /\ new_assignee' = a
    /\ inc_message' = ""
    /\ UNCHANGED <<inc_status, inc_assigned_to, inc_timeline, inc_notes, new_status>>
    /\ UNCHANGED incident_frame

\* lines 376-399: a press of "Update Incident"
UpdateIncident ==
    /\ Len(inc_timeline) < MaxTimeline
    /\ inc_timeline' = inc_timeline \o StatusEntries(inc_status, new_status)
                                    \o AssigneeEntries(inc_assigned_to, new_assignee)
    /\ inc_status' = new_status
    /\ inc_assigned_to' = new_assignee
    /\ inc_message' = "Incident updated successfully"
    /\ UNCHANGED <<inc_notes, new_status, new_assignee>>
    /\ UNCHANGED incident_frame

\* lines 408-419: a press of "Add Note" with the text of the note field.
\* After a note is appended st.rerun() (line 417) runs the page again with
\* no button pressed, so the success message of line 416 is not on the page
\* the press ends with.
AddNote(new_note) ==
    /\ Len(inc_notes) < MaxNotes
    /\ IF new_note # ""
       THEN /\ inc_notes' = Append(inc_notes, new_note)
            /\ inc_message' = ""
       ELSE /\ inc_message' = "Please enter a note"
            /\ UNCHANGED inc_notes
    /\ UNCHANGED <<inc_status, inc_assigned_to, inc_timeline, new_status, new_assignee>>
    /\ UNCHANGED incident_frame

IncidentNext ==
    \/ \E s \in IncidentStatuses : SelectStatus(s)
    \/ \E a \in Assignees : TypeAssignee(a)
    \/ UpdateIncident
    \/ \E new_note \in NoteTexts : AddNote(new_note)

IsPrefix(s, t) == Len(s) <= Len(t) /\ SubSeq(t, 1, Len(s)) = s

\* the entries of t after the first Len(s)
Added(s, t) == SubSeq(t, Len(s) + 1, Len(t))

\* the number of entries of seq with the given action
CountAction(seq, a) == Cardinality({i \in 1 .. Len(seq) : seq[i].action = a})

\* C26: the timeline and the notes only grow at the end; a press of Update
\* Incident appends exactly one "Status changed from X to Y" entry if and
\* only if the selected status differs from the current one, exactly one
\* "Reassigned" entry if and only if the assignee differs, and nothing
\* else; afterwards status and assignee are the selected values; and no
\* step changes the status or the assignee without such an entry.
C26_TimelineAppendOnly ==
    [][/\ IsPrefix(inc_timeline, inc_timeline')
       /\ IsPrefix(inc_notes, inc_notes')
       /\ inc_message' = "Incident updated successfully" =>
             /\ inc_status' = new_status
             /\ inc_assigned_to' = new_assignee
       /\ LET added == Added(inc_timeline, inc_timeline')
          IN  /\ CountAction(added, "Status changed")
                    = IF inc_status' # inc_status THEN 1 ELSE 0
              /\ CountAction(added, "Reassigned")
                    = IF inc_assigned_to' # inc_assigned_to THEN 1 ELSE 0
              /\ Len(added) = CountAction(added, "Status changed")
                                 + CountAction(added, "Reassigned")
              /\ \A i \in 1 .. Len(added) :
                    \/ added[i] = StatusChanged(inc_status, inc_status')
                    \/ added[i] = Reassigned(inc_assigned_to, inc_assigned_to')]_vars

\* a press has recorded a change of status and a reassignment, after a note
C26_Witness ==
    /\ inc_message = "Incident updated successfully"
    /\ inc_timeline = <<Detected, StatusChanged("New", "Contained"),
                        Reassigned("security@example.com", "user1@example.com")>>
    /\ inc_status = "Contained"
    /\ inc_assigned_to = "user1@example.com"
    /\ inc_notes = <<"checked the logs">>

\* a press with nothing changed has added nothing
C26_WitnessNoChange ==
    /\ inc_message = "Incident updated successfully"
    /\ inc_timeline = <<Detected>>
    /\ inc_status = "New"

(***************************************************************************)
(* pages/0_Configuration.py: the network rows, Add New Network and Save    *)
(* Configuration.  The session configuration is kept as its "networks"     *)
(* list (address and name of each entry) and its "scan_schedule"; the      *)
(* other general settings are handled by the save as scan_schedule is.     *)
(* A text typed into an address field is kept with what the validation    *)
(* reads of it: whether it contains "/", and its parts between "-".        *)
(* save_network_configuration is taken as one step that replaces the rows  *)
(* or raises and leaves them (see C20).                                    *)
(***************************************************************************)
\* ipaddress.ip_address accepts / ipaddress.ip_network(strict=False) accepts
IpLiterals == {"10.0.0.5", "10.0.0.1", "10.0.0.9"}
NetworkLiterals == {"10.0.0.0/24"}

AddressTexts ==
    { [text |-> "10.0.0.0/24", slash |-> TRUE, parts |-> <<"10.0.0.0/24">>],
      [text |-> "10.0.0.1-10.0.0.9", slash |-> FALSE, parts |-> <<"10.0.0.1", "10.0.0.9">>],
      [text |-> "10.0.0.5", slash |-> FALSE, parts |-> <<"10.0.0.5">>],
      [text |-> "office", slash |-> FALSE, parts |-> <<"office">>],
      [text |-> "", slash |-> FALSE, parts |-> <<"">>] }
NameTexts == {"lan", ""}
SampleAddress == [text |-> "10.0.0.0/24", slash |-> TRUE, parts |-> <<"10.0.0.0/24">>]
Schedules == {"hourly", "daily"}

is_valid_ip(ip) == ip \in IpLiterals
is_valid_network(network) == network \in NetworkLiterals

\* lines 132-140: is_valid for the text of the new address field
IsValidAddress(a) ==
    IF a.text = "" THEN FALSE
    ELSE IF a.slash THEN is_valid_network(a.text)
    ELSE IF Len(a.parts) = 2 THEN is_valid_ip(a.parts[1]) /\ is_valid_ip(a.parts[2])
    ELSE is_valid_ip(a.text)

\* list.pop(idx)
Pop(seq, idx) == SubSeq(seq, 1, idx - 1) \o SubSeq(seq, idx + 1, Len(seq))

\* the rows save_network_configuration stores for a configuration
RowsFor(networks, schedule) ==
    [k \in 1 .. Len(networks) |->
        [network_address |-> networks[k].address.text,
         network_name |-> networks[k].name,
         scan_schedule |-> schedule]]

\* what json.dump writes for a configuration
FileFor(networks, schedule) ==
    [content |-> "complete", networks |-> networks, scan_schedule |-> schedule]
\* no file yet, and a file that json.dump left cut off
NoFile == [content |-> "absent", networks |-> <<>>, scan_schedule |-> ""]
PartialFile == [content |-> "partial", networks |-> <<>>, scan_schedule |-> ""]

SavedMessage == "Configuration saved successfully!"
ErrorMessage == "Error saving configuration"

\* lines 24-36: the default configuration; nothing stored, no backup file
PageInit ==
    /\ pg_networks = <<>>
    /\ pg_schedule = "hourly"
    /\ scan_schedule = "hourly"
    /\ pg_rows = <<>>
    /\ pg_file = NoFile
    /\ pg_message = ""

\* lines 59-64: the user picks a scan schedule
SelectSchedule(s) ==
    /\ scan_schedule' = s
    /\ pg_message' = ""
    /\ UNCHANGED <<pg_networks, pg_schedule, pg_rows, pg_file>>
    /\ UNCHANGED page_frame

\* lines 93-98: the user edits the address field of row i
EditAddress(i, a) ==
    /\ i \in 1 .. Len(pg_networks)
    /\ pg_networks' = [pg_networks EXCEPT ![i].address = a]
    /\ pg_message' = ""
    /\ UNCHANGED <<pg_schedule, scan_schedule, pg_rows, pg_file>>
    /\ UNCHANGED page_frame

\* lines 100-105: the user edits the name field of row i
EditName(i, n) ==
    /\ i \in 1 .. Len(pg_networks)
    /\ pg_networks' = [pg_networks EXCEPT ![i].name = n]
    /\ pg_message' = ""
    /\ UNCHANGED <<pg_schedule, scan_schedule, pg_rows, pg_file>>
    /\ UNCHANGED page_frame

\* lines 113-118: a press of Remove on row i
RemoveNetwork(i) ==
    /\ i \in 1 .. Len(pg_networks)
    /\ pg_networks' = Pop(pg_networks, i)
    /\ pg_message' = ""
    /\ UNCHANGED <<pg_schedule, scan_schedule, pg_rows, pg_file>>
    /\ UNCHANGED page_frame

\* lines 153-160: a press of Add Network with the two new-network fields
AddNetwork(new_address, new_name) ==
    /\ Len(pg_networks) < MaxNetworks
    /\ IF new_address.text # "" /\ new_name # "" /\ IsValidAddress(new_address)
       THEN pg_networks' = Append(pg_networks, [address |-> new_address, name |-> new_name])
       ELSE UNCHANGED pg_networks
    /\ pg_message' = ""
    /\ UNCHANGED <<pg_schedule, scan_schedule, pg_rows, pg_file>>
    /\ UNCHANGED page_frame

\* lines 217-247: a press of Save Configuration.  The session state is
\* updated first; then the database save returns or raises; then the file
\* is written, or open() raises, or json.dump raises part way.
SaveConfiguration ==
    /\ pg_schedule' = scan_schedule
    /\ \E outcome \in {"saved", "save raises", "write raises"} :
          /\ pg_rows' = IF outcome = "save raises" THEN pg_rows
                        ELSE RowsFor(pg_networks, scan_schedule)
          /\ pg_file' \in IF outcome = "saved"
                          THEN {FileFor(pg_networks, scan_schedule)}
                          ELSE IF outcome = "write raises" THEN {pg_file, PartialFile}
                          ELSE {pg_file}
          /\ pg_message' = IF outcome = "saved" THEN SavedMessage ELSE ErrorMessage
    /\ UNCHANGED <<pg_networks, scan_schedule>>
    /\ UNCHANGED page_frame

\* the network rows and the Add New Network form
NetworksNext ==
    \/ \E i \in 1 .. MaxNetworks, a \in AddressTexts : EditAddress(i, a)
    \/ \E i \in 1 .. MaxNetworks, n \in NameTexts : EditName(i, n)
    \/ \E i \in 1 .. MaxNetworks : RemoveNetwork(i)
    \/ \E a \in AddressTexts, n \in NameTexts : AddNetwork(a, n)

\* the general settings and the save, on lists of one sample network
PageSaveNext ==
    \/ \E s \in Schedules : SelectSchedule(s)
    \/ AddNetwork(SampleAddress, "lan")
    \/ SaveConfiguration

PageNext == NetworksNext \/ PageSaveNext

\* the session configuration, the rows and the file say the same
Consistent ==
    /\ pg_rows = RowsFor(pg_networks, pg_schedule)
    /\ pg_file = FileFor(pg_networks, pg_schedule)

\* C27: a Save Configuration attempt that fails leaves the session
\* configuration as it was before the attempt, and after every attempt
\* the session configuration, the stored rows and the backup file describe
\* the same configuration.
C27_FailedSaveKeepsSession ==
    /\ [](pg_message \in {SavedMessage, ErrorMessage} => Consistent)
    /\ [][pg_message' = ErrorMessage =>
             <<pg_networks, pg_schedule>>' = <<pg_networks, pg_schedule>>]_vars

\* C28: every entry of the configured network list has a non-empty name
\* and an address that is a valid single IP, start-end range or CIDR network.
C28_NetworksValid ==
    \A k \in 1 .. Len(pg_networks) :
        /\ pg_networks[k].name # ""
        /\ IsValidAddress(pg_networks[k].address)

\* the other half of C28: a step that shortens the list takes out one row
\* and keeps every other row, in order
RemoveExact ==
    [][Len(pg_networks') < Len(pg_networks) =>
          \E i \in 1 .. Len(pg_networks) :
             /\ Len(pg_networks') = Len(pg_networks) - 1
             /\ \A j \in 1 .. Len(pg_networks') :
                   pg_networks'[j] = IF j < i THEN pg_networks[j] ELSE pg_networks[j + 1]]_vars

(***************************************************************************)
(* Specifications: one per part, and the whole.                            *)
(***************************************************************************)
Init ==
    /\ GraphInit /\ VulnInit /\ ProbeInit /\ DbInit /\ ConcInit /\ AnalysisInit /\ ConfigInit
    /\ SeedInit /\ InitDbInit /\ PhaseInit /\ IncidentInit /\ PageInit

Next == GraphNext \/ VulnNext \/ ProbeNext \/ DbNext \/ IdentityNext \/ ConcNext \/ AnalysisNext
        \/ ConfigNext \/ SeedNext \/ InitDbNext \/ PhaseNext
        \/ IncidentNext \/ PageNext

Spec == Init /\ [][Next]_vars

\* a part's own specification starts the other parts that take inputs on
\* one fixed input
GraphFixed == num_nodes = 1 /\ num_edges = 0 /\ GraphInit
AnalysisFixed ==
    /\ analysis_size = AttachEdges + 1
    /\ G_analysis = Star(analysis_size, 0)
    /\ AnalysisInit
SeedFixed == table_rows = [t \in Tables |-> 0] /\ SeedInit
\* the parts after the seeding, none of which draws an input
LaterInit == InitDbInit /\ PhaseInit /\ IncidentInit /\ PageInit
RestFixed == SeedFixed /\ LaterInit

InitPart ==
    /\ GraphFixed
    /\ VulnInit /\ ProbeInit /\ DbInit /\ ConcInit /\ ConfigInit
    /\ RestFixed
    /\ AnalysisFixed

InitGraph ==
    /\ GraphInit
    /\ VulnInit /\ ProbeInit /\ DbInit /\ ConcInit /\ ConfigInit
    /\ RestFixed
    /\ AnalysisFixed

InitAnalysis ==
    /\ GraphFixed
    /\ VulnInit /\ ProbeInit /\ DbInit /\ ConcInit /\ ConfigInit
    /\ RestFixed
    /\ CentralityInputs

InitSeed ==
    /\ GraphFixed
    /\ VulnInit /\ ProbeInit /\ DbInit /\ ConcInit /\ ConfigInit
    /\ AnalysisFixed
    /\ SeedInit
    /\ LaterInit

SpecGraph == InitGraph /\ [][GraphNext]_vars
\* the function runs on a single thread until it returns, and a fair
\* random.randint draws, sooner or later, a pair that is not yet an edge
InitGraphFair ==
    /\ num_nodes \in 1 .. MaxFairNodes
    /\ num_edges \in 0 .. MaxFairEdges
    /\ InitGraph

SpecGraphFair == InitGraphFair /\ [][GraphNext]_vars /\ WF_vars(GraphNext)
SpecAnalysis == InitAnalysis /\ [][AnalysisNext]_vars
SpecConfig == InitPart /\ [][ConfigNext]_vars
SpecSeed == InitSeed /\ [][SeedNext]_vars
SpecInitDb == InitPart /\ [][InitDbNext]_vars
SpecPhase == InitPart /\ [][PhaseNext]_vars
SpecIncident == InitPart /\ [][IncidentNext]_vars
SpecNetworks == InitPart /\ [][NetworksNext]_vars
SpecPageSave == InitPart /\ [][PageSaveNext]_vars
SpecVuln == InitPart /\ [][VulnNext]_vars
SpecProbe == InitPart /\ [][ProbeNext]_vars
SpecDb == InitPart /\ [][DbNext]_vars
SpecIdentity == InitPart /\ [][IdentityNext]_vars
SpecConc == InitPart /\ [][ConcNext]_vars


(***************************************************************************)
(* Properties of the topology graph (SpecGraph).                           *)
(***************************************************************************)

\* C1: in every graph create_network_graph builds, both endpoints of every
\* edge are nodes of that graph and are among the nodes 0..num_nodes-1 the
\* node loop adds, and the reader of the edges (the edge traces, which look
\* each endpoint up in pos) never meets an endpoint that is missing.
C1_EdgeEndpointsAreNodes ==
    /\ \A e \in G_edges : e \subseteq G_nodes /\ e \subseteq 0 .. (num_nodes - 1)
    /\ g_pc # "KeyError"

\* C1 witness: a finished graph with at least two edges, read by the page
C1_Witness == g_pc = "shown" /\ Cardinality(G_edges) >= 2

\* reachability and distance stated on walks, independently of the search
RECURSIVE WalkWithin(_, _, _, _)
WalkWithin(E, u, v, k) ==
    \/ u = v
    \/ /\ k > 0
       /\ \E w \in UNION E : {u, w} \in E /\ WalkWithin(E, w, v, k - 1)

IsConnected(N, E) == \A u \in N, v \in N : WalkWithin(E, u, v, Cardinality(N))

Distance(N, E, u, v) ==
    CHOOSE k \in 0 .. Cardinality(N) :
        /\ WalkWithin(E, u, v, k)
        /\ \A j \in 0 .. (k - 1) : ~WalkWithin(E, u, v, j)

LongestShortestPath(N, E) == SetMax({Distance(N, E, u, v) : u \in N, v \in N})

\* C2: computing the diameter never lets an exception out of the page; once
\* the metric is shown it is the longest shortest path when the graph is
\* connected and "N/A (Disconnected)" when it is not.
C2_DiameterNeverFails ==
    /\ g_pc # "NetworkXError"
    /\ g_pc = "shown" =>
          IF IsConnected(G_nodes, G_edges)
          THEN /\ metric_kind = "number"
               /\ metric_value = LongestShortestPath(G_nodes, G_edges)
          ELSE metric_kind = "N/A (Disconnected)"

\* C2 witness: a disconnected graph with an isolated node and an edge, shown
\* as "N/A (Disconnected)"
C2_Witness ==
    /\ g_pc = "shown"
    /\ metric_kind = "N/A (Disconnected)"
    /\ G_edges # {}
    /\ \E n \in G_nodes : \A e \in G_edges : n \notin e

\* a connected graph whose diameter is 2 is shown too
C2_ConnectedShown == g_pc = "shown" /\ metric_kind = "number" /\ metric_value = 2

\* C19: when create_network_graph has returned, the graph has exactly
\* num_nodes nodes and exactly num_edges edges, every edge joins two different
\* nodes (an edge is one unordered pair, so a pair drawn again in either
\* order adds nothing), and the metrics Total Devices and Total Connections,
\* once shown, equal the numbers of nodes and edges of the graph.
C19_CountsExact ==
    /\ g_pc \in {"layout", "edge_traces", "built", "shown"}
       => /\ Cardinality(G_nodes) = num_nodes
          /\ Cardinality(G_edges) = num_edges
          /\ \A e \in G_edges : Cardinality(e) = 2
    /\ g_pc = "shown"
       => /\ total_devices = Cardinality(G_nodes)
          /\ total_connections = Cardinality(G_edges)

\* C19 witness: the statistics of a graph of 4 nodes and 4 edges are shown
C19_Witness ==
    /\ g_pc = "shown"
    /\ total_devices = 4
    /\ total_connections = 4
    /\ Cardinality(G_edges) = 4

(***************************************************************************)
(* Properties of the vulnerability table (SpecVuln).                       *)
(***************************************************************************)

\* C3: the severity of a finding is a function of its affected-node count and
\* affected-link count: two analyses that give the same finding the same
\* counts give it the same severity.
C3_SeverityDeterministic ==
    (/\ rowA # NoRow
     /\ rowB # NoRow
     /\ rowA.AffectedNodes = rowB.AffectedNodes
     /\ rowA.AffectedLinks = rowB.AffectedLinks)
    => rowA.Severity = rowB.Severity

(***************************************************************************)
(* Properties of the probes (SpecProbe).                                   *)
(***************************************************************************)
InFlight == {"entered", "sniffing", "connecting", "reading", "except"}

\* C4: a probe call that has not returned has run for no longer than the
\* timeout (the 30 seconds the code gives sniff; the other probes are given
\* none).
C4_ReturnsByTimeout == p_pc \in InFlight => p_clock <= SniffTimeout

\* C5: a value a probe returned after an exception is never a value the same
\* probe returned from a successful run.
C5_FailureDistinguishable ==
    (/\ last_report.probe # "none"
     /\ last_report.probe = prev_report.probe
     /\ last_report.raised # prev_report.raised)
    => last_report.result # prev_report.result

\* C6: no exception raised inside a probe leaves the probe call, and when a
\* call that failed hands its value to the caller, the report is about the
\* probe that ran, the report of the call before it is kept as it was, and
\* the caller is free to start any probe next.
C6_FailureContained ==
    /\ [](p_pc # "escaped")
    /\ [][(p_pc = "returned" /\ p_exc # NoExc) =>
             /\ last_report'.probe = p_probe
             /\ last_report'.raised
             /\ prev_report' = last_report
             /\ p_pc' = "idle"]_vars

\* C6 witness: a failed call was reported after a successful call of another
\* probe, and the caller is idle again
C6_Witness ==
    /\ p_pc = "idle"
    /\ last_report.raised
    /\ prev_report.probe \notin {"none", last_report.probe}
    /\ ~prev_report.raised

\* the frames a returned value carries
Observations(result) == {result.frames[k] : k \in 1 .. Len(result.frames)}

\* C7: what a passive probe returns holds every frame captured during the
\* listen window.
C7_NoObservationDropped ==
    (p_pc = "returned" /\ p_probe \in PassiveProbes) =>
        \A k \in 1 .. Len(p_captured) : p_captured[k] \in Observations(p_result)

\* C8: a probe call makes at most one attempt (so at most 1 + max_retries for
\* every max_retries >= 0), an attempt after the first follows a transient
\* error only, and after an authentication error no attempt is made.
C8_RetryPolicy ==
    /\ [](p_attempts <= 1)
    /\ [][(p_attempts' > p_attempts /\ p_attempts >= 1) =>
             p_exc.class \in TransientErrors]_vars
    /\ [][p_exc.class \in AuthErrors => p_attempts' <= p_attempts]_vars

\* C8 witness: a call that failed with an authentication error has returned
\* after its single attempt
C8_Witness ==
    /\ p_pc = "returned"
    /\ p_exc.class \in AuthErrors
    /\ p_attempts = 1

\* C17: no step of a discover_* call, from its entry to its return, changes
\* DeviceDiscovery.discovered_devices or any variable of the program outside
\* the call (the tables, the graph, the page's output, other calls); the call
\* only moves its own locals and hands back its return value.
C17_ProbeFrame ==
    [][(p_pc # "idle" \/ p_pc' # "idle")
       => /\ discovered_devices' = discovered_devices
          /\ ui_message' = ui_message
          /\ UNCHANGED <<graph_vars, vuln_vars, db_vars, conc_vars, analysis_vars, config_vars, rest_vars>>]_vars

\* C17 witness: a call of an active probe has returned a value read from the
\* device
C17_Witness ==
    /\ p_pc = "idle"
    /\ last_report.probe \in ActiveProbes
    /\ last_report.result.type \in {"str", "dict"}
    /\ ~last_report.raised

(***************************************************************************)
(* Properties of the network_devices table (SpecDb).                       *)
(***************************************************************************)

\* C9: adding the record that was added by the call before adds no row (the
\* table holds the same rows as after the first addition, and never two rows
\* with the same content) and commits nothing.
C9_MergeIdempotent ==
    /\ [](\A r1 \in network_devices, r2 \in network_devices :
             r1.id # r2.id => r1.device_id # r2.device_id)
    /\ [][(/\ db_call.op = "add_network_device"
           /\ db_call'.op = "add_network_device"
           /\ db_call'.data = db_call.data)
          => /\ network_devices' = network_devices
             /\ db_commits' = db_commits]_vars

\* C9 witness: the second addition of a record whose first addition stored a
\* row has been made
C9_Witness ==
    /\ db_call.op = "add_network_device"
    /\ db_call.outcome = "IntegrityError"
    /\ \E r \in network_devices :
          /\ r.device_id = db_call.data.device_id
          /\ r.mac_address = db_call.data.mac_address
          /\ r.status = db_call.data.status

\* C10: the table never holds two rows with the same non-empty MAC address.
C10_MacIsIdentityKey ==
    \A r1 \in network_devices, r2 \in network_devices :
        (r1.id # r2.id /\ r1.mac_address # NoMac) => r1.mac_address # r2.mac_address

\* the five operational statuses of a Device, in the spelling of the code
OperationalStatuses == {"unknown", "online", "warning", "offline", "maintenance"}

\* C16: every stored device has one of the five operational statuses, and
\* each of the five can be stored: add_network_device never refuses a record
\* because its status is one of them.
C16_StatusDomain ==
    /\ \A r \in network_devices : r.status \in OperationalStatuses
    /\ (/\ db_call.op = "add_network_device"
        /\ db_call.data.status \in OperationalStatuses)
       => db_call.outcome # "ValueError"


(***************************************************************************)
(* Properties of observed devices stored in network_devices (SpecIdentity).*)
(***************************************************************************)

\* the stored rows that carry the IP address ip
RowsWithIp(ip) == {r \in network_devices : r.ip_address = ip}

\* C11: once a device stored from an observation with only an IP address has
\* been observed again with the same IP address and a MAC address, the table
\* holds one row for that IP address, not two.
C11_IdentityStable ==
    (/\ db_call.op = "add_network_device"
     /\ db_call.outcome = "ok"
     /\ db_call.data.ip_address # NoIp
     /\ db_call.data.mac_address # NoMac
     /\ \E r \in network_devices :
           /\ r.ip_address = db_call.data.ip_address
           /\ r.mac_address = NoMac)
    => Cardinality(RowsWithIp(db_call.data.ip_address)) = 1

\* what the two observations of the example carry besides the name: the
\* confidence hint (in tenths), the timestamp and the kind of source
Hint(device_name) ==
    IF device_name = "sw1"
    THEN [confidence_hint |-> 9, timestamp |-> 100, source |-> "authenticated"]
    ELSE [confidence_hint |-> 4, timestamp |-> 105, source |-> "passive"]

\* the precedence rule: confidence, then recency, then active over passive
Outranks(a, b) ==
    \/ a.confidence_hint > b.confidence_hint
    \/ /\ a.confidence_hint = b.confidence_hint
       /\ a.timestamp > b.timestamp
    \/ /\ a.confidence_hint = b.confidence_hint
       /\ a.timestamp = b.timestamp
       /\ a.source = "authenticated"
       /\ b.source = "passive"

\* the stored rows that carry the MAC address mac
RowsWithMac(mac) == {r \in network_devices : r.mac_address = mac}

\* C12: once two observations of one MAC address that disagree on the name
\* have both been handed over, in either order, the table holds a single
\* device for that MAC address and its name is the one from the observation
\* that outranks the other (higher confidence, then more recent, then
\* authenticated over passive): "sw1" beats "switch-unknown".
C12_PrecedenceCorrect ==
    \A r \in network_devices :
        (/\ db_call.op = "add_network_device"
         /\ db_call.outcome \in {"ok", "IntegrityError"}
         /\ db_call.data.mac_address # NoMac
         /\ r.mac_address = db_call.data.mac_address
         /\ r.device_name # db_call.data.device_name)
        => /\ Cardinality(RowsWithMac(db_call.data.mac_address)) = 1
           /\ \A w \in RowsWithMac(db_call.data.mac_address) :
                 w.device_name =
                     IF Outranks(Hint(db_call.data.device_name), Hint(r.device_name))
                     THEN db_call.data.device_name
                     ELSE r.device_name

\* C14: a stored device that has not been observed again for GracePeriod
\* time units has status offline, and one that has not been observed for
\* RetentionPeriod time units is no longer stored.  The device looked at is
\* the one the latest call stored, so the time since its last_updated is the
\* time it has gone unobserved.
C14_Lifecycle ==
    \A r \in network_devices :
        (/\ db_call.op = "add_network_device"
         /\ db_call.outcome = "ok"
         /\ r.id = next_id - 1)
        => /\ (db_now - r.last_updated >= GracePeriod => r.status = "offline")
           /\ db_now - r.last_updated < RetentionPeriod


(***************************************************************************)
(* Properties of the centrality analysis (SpecAnalysis).                   *)
(***************************************************************************)

\* C18: on a star (one hub linked to every other node, of which there are at
\* least two: four leaves when the graph has 5 nodes) the betweenness
\* centrality computed is exactly zero at every leaf and greater at the hub
\* than at any other node.
C18_StarBetweenness ==
    \A hub \in 0 .. (analysis_size - 1) :
        (/\ a_pc = "computed"
         /\ Cardinality(G_analysis) >= 2
         /\ G_analysis = Star(analysis_size, hub))
        => \A leaf \in (0 .. (analysis_size - 1)) \ {hub} :
              /\ betweenness[leaf] = 0
              /\ betweenness[hub] > betweenness[leaf]

\* C18 witness: the centrality of a star of 5 nodes has been computed, and the
\* hub has the value 1.0
C18_Witness ==
    /\ a_pc = "computed"
    /\ analysis_size = 5
    /\ \E hub \in 0 .. 4 :
          /\ G_analysis = Star(5, hub)
          /\ betweenness[hub] = BetweennessDen(5)


(***************************************************************************)
(* Properties of save_network_configuration (SpecConfig).                  *)
(***************************************************************************)

\* the rows a successful save of data stores, the first id being first_id
RowsOf(data, first_id) ==
    { [id |-> first_id + k - 1,
       network_address |-> data[k].address,
       network_name |-> data[k].name] : k \in 1 .. Len(data) }

\* C20: after a call that returned, the committed rows are exactly one row
\* per entry of config_data["networks"] and none of the rows stored before;
\* after a call that raised, and at every moment before the commit, the
\* committed rows are the rows stored before the call.
C20_SaveAtomic ==
    /\ cfg_pc = "returned"
       => /\ network_configurations = RowsOf(config_data, cfg_next_id - Len(config_data))
          /\ Cardinality(network_configurations) = Len(config_data)
          /\ network_configurations \cap cfg_before = {}
    /\ cfg_pc \in {"entered", "adding", "except", "raised"}
       => network_configurations = cfg_before

\* C20 witness: a save has failed after its DELETE while rows were stored,
\* and the rows are still there
C20_Witness ==
    /\ cfg_pc = "raised"
    /\ cfg_before # {}
    /\ network_configurations = cfg_before

\* a save that replaced stored rows by other rows has returned
C20_WitnessReplaced ==
    /\ cfg_pc = "returned"
    /\ cfg_before # {}
    /\ network_configurations # {}


====
